---- MODULE Spec2Model ----
(***************************************************************************)
(* Model of the k8s-directory-status repository: the TTL cache and the     *)
(* depth-aware listing of du_runner.py, the path guard of utils.py, the    *)
(* overlay scan and the sizing of overlay_utils.py, the worker-pool        *)
(* pipeline of the node scripts and the path summary of main.py.           *)
(*                                                                         *)
(* A path is a sequence of one-character strings; the character "NUL"      *)
(* stands for the null byte.                                               *)
(***************************************************************************)
EXTENDS Integers, Sequences, FiniteSets, TLC

VARIABLES clock, ttl_sec, cache, lastStore, nscan, ncalls, req,
          meas, sres, spending, spc, ov,
          bargs, items, fstate, fres, doneq, completed, results, presort, bpc,
          summary, api, cli, sel, pv, par, opt

duVars == <<clock, ttl_sec, cache, lastStore, nscan, ncalls, req>>
measVars == <<meas>>
sumVars == <<sres, spending, spc>>
ovVars == <<ov>>
batchVars ==
    <<bargs, items, fstate, fres, doneq, completed, results, presort, bpc, summary>>

frontVars == <<api, cli, sel>>
extraVars == <<pv, par, opt>>

vars == <<duVars, measVars, sumVars, ovVars, batchVars, frontVars, extraVars>>

nonDuVars == <<measVars, sumVars, ovVars, batchVars, frontVars, extraVars>>
nonMeasVars == <<duVars, sumVars, ovVars, batchVars, frontVars, extraVars>>
nonSumVars == <<duVars, measVars, ovVars, batchVars, frontVars, extraVars>>
nonOvVars == <<duVars, measVars, sumVars, batchVars, frontVars, extraVars>>
nonBatchVars == <<duVars, measVars, sumVars, ovVars, frontVars, extraVars>>
nonApiVars == <<duVars, measVars, sumVars, ovVars, batchVars, cli, sel, extraVars>>
nonCliVars == <<duVars, measVars, sumVars, ovVars, batchVars, api, sel, extraVars>>
nonSelVars == <<duVars, measVars, sumVars, ovVars, batchVars, api, cli, extraVars>>
nonVolVars == <<duVars, measVars, sumVars, ovVars, batchVars, frontVars, par, opt>>
nonParVars == <<duVars, measVars, sumVars, ovVars, batchVars, frontVars, pv, opt>>
nonOptVars == <<duVars, measVars, sumVars, ovVars, batchVars, frontVars, pv, par>>

(***************************************************************************)
(* Strings                                                                 *)
(***************************************************************************)
SEP == "/"
NUL == "NUL"

StartsWith(s, p) == Len(p) <= Len(s) /\ SubSeq(s, 1, Len(p)) = p

Contains(s, ch) == \E i \in 1..Len(s) : s[i] = ch

RECURSIVE SplitFrom(_, _, _)
SplitFrom(s, i, cur) ==
    IF i > Len(s) THEN <<cur>>
    ELSE IF s[i] = SEP THEN <<cur>> \o SplitFrom(s, i + 1, <<>>)
    ELSE SplitFrom(s, i + 1, Append(cur, s[i]))

\* str.split("/")
Split(s) == SplitFrom(s, 1, <<>>)

RECURSIVE Join(_)
\* "/".join(comps)
Join(comps) ==
    IF Len(comps) = 0 THEN <<>>
    ELSE IF Len(comps) = 1 THEN comps[1]
    ELSE comps[1] \o <<SEP>> \o Join(Tail(comps))

DOT == <<".">>
DOTDOT == <<".", ".">>

InitialSlashes(p) ==
    IF ~StartsWith(p, <<SEP>>) THEN 0
    ELSE IF StartsWith(p, <<SEP, SEP>>) /\ ~StartsWith(p, <<SEP, SEP, SEP>>) THEN 2
    ELSE 1

RECURSIVE NormComps(_, _, _, _)
NormComps(comps, i, new, slashes) ==
    IF i > Len(comps) THEN new
    ELSE LET comp == comps[i] IN
         IF comp = <<>> \/ comp = DOT THEN NormComps(comps, i + 1, new, slashes)
         ELSE IF comp # DOTDOT
                 \/ (slashes = 0 /\ Len(new) = 0)
                 \/ (Len(new) > 0 /\ new[Len(new)] = DOTDOT)
              THEN NormComps(comps, i + 1, Append(new, comp), slashes)
         ELSE IF Len(new) > 0
              THEN NormComps(comps, i + 1, SubSeq(new, 1, Len(new) - 1), slashes)
         ELSE NormComps(comps, i + 1, new, slashes)

\* os.path.normpath (posix)
normpath(p) ==
    IF p = <<>> THEN DOT
    ELSE LET slashes == InitialSlashes(p)
             body == Join(NormComps(Split(p), 1, <<>>, slashes))
             out == (IF slashes = 2 THEN <<SEP, SEP>>
                     ELSE IF slashes = 1 THEN <<SEP>> ELSE <<>>) \o body
         IN IF out = <<>> THEN DOT ELSE out

isabs(p) == StartsWith(p, <<SEP>>)

is_safe_abs_path_nonul(p) ==
    IF p = <<>> THEN FALSE
    ELSE IF ~isabs(p) THEN FALSE
    ELSE StartsWith(normpath(p), <<SEP>>)

is_safe_abs_path(p) ==
    IF p = <<>> \/ Contains(p, NUL) THEN FALSE
    ELSE IF ~isabs(p) THEN FALSE
    ELSE StartsWith(normpath(p), <<SEP>>)

is_within_nosep(base, target) ==
    LET b == normpath(base)
        t == normpath(target)
    IN IF b = <<SEP>> THEN TRUE ELSE t = b \/ StartsWith(t, b)

is_within(base, target) ==
    LET b == normpath(base)
        t == normpath(target)
    IN IF b = <<SEP>> THEN TRUE ELSE t = b \/ StartsWith(t, b \o <<SEP>>)

(***************************************************************************)
(* list.sort: a stable ascending sort; keys[i] is the key of s[i], a pair   *)
(* of integers compared as Python compares tuples. sort(reverse=True) on a *)
(* number keeps equal elements in their order, as this sort does on the    *)
(* negated number.                                                         *)
(***************************************************************************)
KeyLess(a, b) == a[1] < b[1] \/ (a[1] = b[1] /\ a[2] < b[2])

StableSort(s, keys) ==
    LET pos(i) == 1 + Cardinality({j \in 1..Len(s) :
                        \/ KeyLess(keys[j], keys[i])
                        \/ (~KeyLess(keys[i], keys[j]) /\ j < i)})
    IN [k \in 1..Len(s) |-> s[CHOOSE i \in 1..Len(s) : pos(i) = k]]

(***************************************************************************)
(* du_runner.py: DuCache and list_children_sizes                           *)
(***************************************************************************)
\* None, where the code holds a cache value (ts, data)
NoEntry == [ts |-> -1, data |-> <<>>]

MaxTime == 3
MaxTtl == 1
MaxCalls == 2

Str(word) == CASE word = "/d"  -> <<SEP, "d">>
               [] word = "/d/" -> <<SEP, "d", SEP>>
               [] word = "/db" -> <<SEP, "d", "b">>
               [] word = "/"   -> <<SEP>>
               [] word = "/d/d" -> <<SEP, "d", SEP, "d">>
               [] word = "/host" -> <<SEP, "h", "o", "s", "t">>
               [] word = "/u" -> <<SEP, "u">>
               [] word = "/host/u" -> <<SEP, "h", "o", "s", "t", SEP, "u">>
               [] word = "/host/host" -> <<SEP, "h", "o", "s", "t", SEP, "h", "o", "s", "t">>
               [] word = "/hostp" -> <<SEP, "h", "o", "s", "t", "p">>
               [] word = "/host/hostp" -> <<SEP, "h", "o", "s", "t", SEP, "h", "o", "s", "t", "p">>

DuEntry(p, b) == [path |-> p, bytes |-> b]

\* What a scan of path finds: the directory changes between scans.
Snapshots == {1, 2}

\* run_du_parallel: one row per subdirectory, then the row of the path itself
ParallelRows(path, snap) ==
    LET sub(n) == path \o (IF path[Len(path)] = SEP THEN <<>> ELSE <<SEP>>) \o <<n>>
    IN IF snap = 1
       THEN <<DuEntry(sub("x"), 2), DuEntry(path, 3)>>
       ELSE <<DuEntry(sub("x"), 1), DuEntry(sub("y"), 4), DuEntry(path, 5)>>

\* run_du: the rows parsed from du's output, the row of the path itself last
DuRows(path, snap) ==
    LET sub(n) == path \o (IF path[Len(path)] = SEP THEN <<>> ELSE <<SEP>>) \o <<n>>
    IN IF snap = 1
       THEN <<DuEntry(sub("x"), 2), DuEntry(path, 3)>>
       ELSE <<DuEntry(sub("y"), 4), DuEntry(sub("x"), 1), DuEntry(path, 5)>>

\* The last store made for a key, kept when the entry is popped (an observer)
NoStore == [ts |-> -1, data |-> <<>>, n |-> 0, by |-> 0]

\* How a call obtained its rows: the scanner, and what it was given
Via(tool, depth, one_fs, timed) ==
    [tool |-> tool, depth |-> depth, one_fs |-> one_fs, timed |-> timed]

NoTool == Via("none", 0, FALSE, FALSE)

IdleReq == [pc |-> "idle", via |-> NoTool, before |-> <<>>, path |-> <<>>, depth |-> 0, one_fs |-> FALSE,
            roots |-> <<>>, key |-> <<>>, v |-> NoEntry, hasData |-> FALSE,
            data |-> <<>>, looked |-> FALSE, scanned |-> FALSE, getTime |-> -1,
            preStore |-> NoStore, result |-> "none", order |-> 0, overlap |-> FALSE,
            resp |-> [path |-> <<>>, total_none |-> TRUE, total_bytes |-> 0,
                      entries |-> <<>>]]

\* The callers of the run: one, or several threads that share the cache
Callers == DOMAIN req

IdleDu ==
    /\ clock = 0
    /\ ttl_sec = 0
    /\ cache = <<>>
    /\ lastStore = <<>>
    /\ nscan = <<>>
    /\ ncalls = 0
    /\ req = [c \in {1} |-> IdleReq]

InitDu ==
    /\ clock = 0
    /\ ttl_sec \in 0..MaxTtl
    /\ cache = <<>>
    /\ lastStore = <<>>
    /\ nscan = <<>>
    /\ ncalls = 0
    /\ req = [c \in {1} |-> IdleReq]

SetReq(c, r) == req' = [req EXCEPT ![c] = r]

\* A caller invokes list_children_sizes(path, depth, cache, timeout, one_fs, roots)
\* order, overlap and before observe the run: the call's number, whether
\* another call was in flight at any time during this one, and the cache as
\* the call found it
InFlight == {o \in Callers : req[o].pc \notin {"idle", "done"}}

Begin(c, in, rl) ==
    /\ req' = [o \in Callers |->
                 IF o = c
                 THEN [IdleReq EXCEPT !.pc = "validate", !.path = in.path,
                                      !.depth = in.depth, !.one_fs = in.one_fs,
                                      !.roots = rl, !.order = ncalls + 1,
                                      !.before = cache,
                                      !.overlap = InFlight # {}]
                 ELSE IF o \in InFlight THEN [req[o] EXCEPT !.overlap = TRUE]
                 ELSE req[o]]
    /\ ncalls' = ncalls + 1
    /\ UNCHANGED <<clock, ttl_sec, cache, lastStore, nscan>>
    /\ UNCHANGED nonDuVars

Call(c, inputs, rootlists) ==
    /\ req[c].pc \in {"idle", "done"}
    /\ ncalls < MaxCalls
    /\ \E in \in inputs, rl \in rootlists : Begin(c, in, rl)

\* du_runner.py:129-130
Validate(c) ==
    /\ req[c].pc = "validate"
    /\ IF ~is_safe_abs_path(req[c].path)
       THEN SetReq(c, [req[c] EXCEPT !.pc = "done", !.result = "InvalidPath"])
       ELSE SetReq(c, [req[c] EXCEPT !.pc = "roots"])
    /\ UNCHANGED <<clock, ttl_sec, cache, lastStore, nscan, ncalls>>
    /\ UNCHANGED nonDuVars

RootsReject(roots, path) ==
    Len(roots) > 0 /\ ~(\E i \in 1..Len(roots) : is_within(roots[i], path))

CacheKey(path, depth, one_fs) == <<normpath(path), depth, one_fs>>

\* du_runner.py:131-135
CheckRoots(c) ==
    /\ req[c].pc = "roots"
    /\ IF RootsReject(req[c].roots, req[c].path)
       THEN SetReq(c, [req[c] EXCEPT !.pc = "done", !.result = "Forbidden"])
       ELSE SetReq(c, [req[c] EXCEPT !.pc = "get_read",
                         !.key = CacheKey(req[c].path, req[c].depth, req[c].one_fs)])
    /\ UNCHANGED <<clock, ttl_sec, cache, lastStore, nscan, ncalls>>
    /\ UNCHANGED nonDuVars

Lookup(m, k) == IF k \in DOMAIN m THEN m[k] ELSE NoEntry

\* DuCache.get, du_runner.py:21-23
GetRead(c) ==
    /\ req[c].pc = "get_read"
    /\ LET v == Lookup(cache, req[c].key)
           base == [req[c] EXCEPT !.looked = TRUE, !.v = v, !.getTime = clock,
                                  !.preStore = IF req[c].key \in DOMAIN lastStore
                                               THEN lastStore[req[c].key]
                                               ELSE NoStore]
       IN IF v = NoEntry
          THEN SetReq(c, [base EXCEPT !.pc = "scan"])
          ELSE SetReq(c, [base EXCEPT !.pc = "get_check"])
    /\ UNCHANGED <<clock, ttl_sec, cache, lastStore, nscan, ncalls>>
    /\ UNCHANGED nonDuVars

Store(m, k, val) == [x \in DOMAIN m \cup {k} |-> IF x = k THEN val ELSE m[x]]

\* The number of scans made so far for a key (an observer of the run)
Count(m, k) == IF k \in DOMAIN m THEN m[k] ELSE 0

Expired_inclusive(now, ts, ttl) == (now - ts) >= ttl

Expired(now, ts, ttl) == (now - ts) > ttl

\* DuCache.get, du_runner.py:24-28
GetCheck(c) ==
    /\ req[c].pc = "get_check"
    /\ IF Expired(clock, req[c].v.ts, ttl_sec)
       THEN SetReq(c, [req[c] EXCEPT !.pc = "get_pop", !.getTime = clock])
       ELSE SetReq(c, [req[c] EXCEPT !.pc = "respond", !.getTime = clock,
                                     !.hasData = TRUE, !.data = req[c].v.data])
    /\ UNCHANGED <<clock, ttl_sec, cache, lastStore, nscan, ncalls>>
    /\ UNCHANGED nonDuVars

\* DuCache.get, du_runner.py:26-27
GetPop(c) ==
    /\ req[c].pc = "get_pop"
    /\ cache' = [k \in DOMAIN cache \ {req[c].key} |-> cache[k]]
    /\ SetReq(c, [req[c] EXCEPT !.pc = "scan"])
    /\ UNCHANGED <<clock, ttl_sec, lastStore, nscan, ncalls>>
    /\ UNCHANGED nonDuVars

\* du_runner.py:137-142; run_du raises on a timeout and on an exit code
\* other than 0 and 1 (du_runner.py:113-115). At depth 1 the rows come from
\* run_du_parallel, which walks the directory with os.scandir in worker
\* threads (du_runner.py:60-106): no du, no -x, no timeout.
Scan(c) ==
    /\ req[c].pc = "scan"
    /\ \E snap \in Snapshots :
         IF req[c].depth = 1
         THEN SetReq(c, [req[c] EXCEPT !.pc = "set", !.scanned = TRUE,
                           !.via = Via("scandir", 1, FALSE, FALSE),
                           !.hasData = TRUE, !.data = ParallelRows(req[c].path, snap)])
         ELSE \E out \in {"rows", "norows", "RuntimeError", "TimeoutExpired"} :
                LET du == [req[c] EXCEPT !.scanned = TRUE,
                              !.via = Via("du", req[c].depth, req[c].one_fs, TRUE)]
                IN IF out = "rows"
                   THEN SetReq(c, [du EXCEPT !.pc = "set", !.hasData = TRUE,
                                     !.data = DuRows(req[c].path, snap)])
                   ELSE IF out = "norows"
                   THEN SetReq(c, [du EXCEPT !.pc = "set", !.hasData = TRUE,
                                     !.data = <<>>])
                   ELSE SetReq(c, [du EXCEPT !.pc = "done", !.result = out])
    /\ nscan' = Store(nscan, req[c].key, Count(nscan, req[c].key) + 1)
    /\ UNCHANGED <<clock, ttl_sec, cache, lastStore, ncalls>>
    /\ UNCHANGED nonDuVars

CacheSet_only(c) ==
    /\ req[c].pc = "set"
    /\ cache' = Store(<<>>, req[c].key, [ts |-> clock, data |-> req[c].data])
    /\ lastStore' = Store(lastStore, req[c].key,
                          [ts |-> clock, data |-> req[c].data,
                           n |-> Count(nscan, req[c].key), by |-> c])
    /\ SetReq(c, [req[c] EXCEPT !.pc = "respond"])
    /\ UNCHANGED <<clock, ttl_sec, nscan, ncalls>>
    /\ UNCHANGED nonDuVars

CacheSet_keep_first(c) ==
    /\ req[c].pc = "set"
    /\ cache' = IF req[c].key \in DOMAIN cache THEN cache
                ELSE Store(cache, req[c].key, [ts |-> clock, data |-> req[c].data])
    /\ lastStore' = Store(lastStore, req[c].key,
                          [ts |-> clock, data |-> req[c].data,
                           n |-> Count(nscan, req[c].key), by |-> c])
    /\ SetReq(c, [req[c] EXCEPT !.pc = "respond"])
    /\ UNCHANGED <<clock, ttl_sec, nscan, ncalls>>
    /\ UNCHANGED nonDuVars

\* DuCache.set, du_runner.py:30-31 and 143
CacheSet(c) ==
    /\ req[c].pc = "set"
    /\ cache' = Store(cache, req[c].key, [ts |-> clock, data |-> req[c].data])
    /\ lastStore' = Store(lastStore, req[c].key,
                          [ts |-> clock, data |-> req[c].data,
                           n |-> Count(nscan, req[c].key), by |-> c])
    /\ SetReq(c, [req[c] EXCEPT !.pc = "respond"])
    /\ UNCHANGED <<clock, ttl_sec, nscan, ncalls>>
    /\ UNCHANGED nonDuVars

\* key=lambda x: x.bytes, reverse=True
BytesDesc(rows) == [i \in 1..Len(rows) |-> <<0 - rows[i].bytes, 0>>]

\* du_runner.py:145-163
Response(path, data) ==
    LET norm == normpath(path)
        mine == {i \in 1..Len(data) : normpath(data[i].path) = norm}
        isChild(e) == normpath(e.path) # norm
        children == SelectSeq(data, isChild)
    IN [path |-> norm,
        total_none |-> mine = {},
        total_bytes |-> IF mine = {} THEN 0
                        ELSE data[CHOOSE i \in mine : \A j \in mine : j <= i].bytes,
        entries |-> StableSort(children, BytesDesc(children))]

Respond(c) ==
    /\ req[c].pc = "respond"
    /\ SetReq(c, [req[c] EXCEPT !.pc = "done", !.result = "ok",
                                !.resp = Response(req[c].path, req[c].data)])
    /\ UNCHANGED <<clock, ttl_sec, cache, lastStore, nscan, ncalls>>
    /\ UNCHANGED nonDuVars

\* time.time() advances
Tick ==
    /\ clock < MaxTime
    /\ clock' = clock + 1
    /\ UNCHANGED <<ttl_sec, cache, lastStore, nscan, ncalls, req>>
    /\ UNCHANGED nonDuVars

Input(p, d, x) == [path |-> p, depth |-> d, one_fs |-> x]

DuInputs == {Input(Str("/d"), 1, TRUE), Input(Str("/d/"), 1, TRUE),
             Input(Str("/d"), 2, TRUE), Input(Str("/d"), 2, FALSE)}
DuRoots == {<<>>}

CallDu == \E c \in Callers : Call(c, DuInputs, DuRoots)
ValidateStep == \E c \in Callers : Validate(c)
CheckRootsStep == \E c \in Callers : CheckRoots(c)
GetReadStep == \E c \in Callers : GetRead(c)
GetCheckStep == \E c \in Callers : GetCheck(c)
GetPopStep == \E c \in Callers : GetPop(c)
ScanStep == \E c \in Callers : Scan(c)
CacheSetStep == \E c \in Callers : CacheSet(c)
RespondStep == \E c \in Callers : Respond(c)

NextDu ==
    \/ CallDu
    \/ ValidateStep
    \/ CheckRootsStep
    \/ GetReadStep
    \/ GetCheckStep
    \/ GetPopStep
    \/ ScanStep
    \/ CacheSetStep
    \/ RespondStep
    \/ Tick

(***************************************************************************)
(* Two threads that share one DuCache and call list_children_sizes for the *)
(* same key at any time: their steps interleave at the cache's dictionary  *)
(* operations, the clock readings and the scans. The scans are those of    *)
(* depth 1, which do not raise.                                            *)
(***************************************************************************)
RaceCallers == {1, 2}

RaceInputs == {Input(Str("/d"), 1, TRUE)}

InitRace ==
    /\ clock = 0
    /\ ttl_sec \in 0..MaxTtl
    /\ cache = <<>>
    /\ lastStore = <<>>
    /\ nscan = <<>>
    /\ ncalls = 0
    /\ req = [c \in RaceCallers |-> IdleReq]

CallRace ==
    \E c \in Callers :
        /\ req[c].pc \in {"idle", "done"}
        /\ ncalls <= Cardinality(Callers)
        /\ \E in \in RaceInputs : Begin(c, in, <<>>)

NextRace ==
    \/ CallRace
    \/ ValidateStep
    \/ CheckRootsStep
    \/ GetReadStep
    \/ GetCheckStep
    \/ GetPopStep
    \/ ScanStep
    \/ CacheSetStep
    \/ RespondStep
    \/ Tick

(***************************************************************************)
(* The path guard of list_children_sizes over many paths and root lists:   *)
(* one call from the empty cache                                           *)
(***************************************************************************)
MaxSegs == 4

GuardSegs == {<<>>, DOT, DOTDOT, <<"d">>, <<"d", "b">>, <<"d", NUL>>}

GuardPaths == {Join(f) : f \in UNION {[1..n -> GuardSegs] : n \in 1..MaxSegs}}

GuardInputs == {Input(p, 1, TRUE) : p \in GuardPaths}

GuardRoots == {<<>>, <<Str("/d")>>, <<Str("/")>>, <<Str("/d/")>>,
               <<Str("/db"), Str("/d/d")>>}

CallGuard == \E c \in Callers : ncalls = 0 /\ Call(c, GuardInputs, GuardRoots)

NextGuard ==
    \/ CallGuard
    \/ ValidateStep
    \/ CheckRootsStep
    \/ GetReadStep
    \/ ScanStep
    \/ CacheSetStep
    \/ RespondStep

(***************************************************************************)
(* The sizing tool. A run of du ends by exiting (with an exit code, the    *)
(* whitespace-separated tokens of its output and the length of its error   *)
(* stream), by exceeding the timeout, or is never started (OSError).       *)
(***************************************************************************)
Num(n) == [num |-> TRUE, val |-> n]
Junk == [num |-> FALSE, val |-> 0]

DuExit(rc, out, errlen) == [kind |-> "exit", rc |-> rc, out |-> out, errlen |-> errlen]
DuTimeout == [kind |-> "timeout", rc |-> 0, out |-> <<>>, errlen |-> 0]
DuOSError == [kind |-> "oserror", rc |-> 0, out |-> <<>>, errlen |-> 0]

\* du's outcomes: exit code, the fields of stdout, the length of stderr
DuOutcomes ==
    {DuExit(0, <<Num(0), Junk>>, 0), DuExit(0, <<Num(2), Junk>>, 0),
     DuExit(1, <<Num(2), Junk>>, 30), DuExit(1, <<>>, 30),
     DuExit(2, <<>>, 100), DuExit(0, <<Junk>>, 0), DuTimeout, DuOSError}

Human(msg, n) == [msg |-> msg, n |-> n]

\* utils.human_bytes: the text of a byte count
human_bytes(n) == Human("size", IF n > 0 THEN n ELSE 0)

Min(a, b) == IF a < b THEN a ELSE b

ErrSlice == 80

HostPrefix == <<SEP, "h", "o", "s", "t">>

Sizing(b, h, st, target, ran) ==
    [bytes |-> b, human |-> h, status |-> st, target |-> target, ran |-> ran]

get_upperdir_size_zero(path, timeout_sec, exists, du) ==
    LET target == IF ~StartsWith(path, HostPrefix) /\ path \notin exists
                  THEN HostPrefix \o path ELSE path
    IN IF target \notin exists
       THEN Sizing(0, human_bytes(0), "ok", target, FALSE)
       ELSE IF du.kind = "timeout"
       THEN Sizing(-1, Human("Timeout", timeout_sec), "error", target, TRUE)
       ELSE IF du.kind = "oserror"
       THEN Sizing(-1, Human("Error", 0), "error", target, TRUE)
       ELSE IF du.rc \in {0, 1} /\ Len(du.out) > 0
       THEN IF du.out[1].num
            THEN Sizing(du.out[1].val, human_bytes(du.out[1].val), "ok", target, TRUE)
            ELSE Sizing(-1, Human("Error", 0), "error", target, TRUE)
       ELSE Sizing(-1, Human("du error", Min(du.errlen, ErrSlice)), "error", target, TRUE)

get_upperdir_size_rc0(path, timeout_sec, exists, du) ==
    LET target == IF ~StartsWith(path, HostPrefix) /\ path \notin exists
                  THEN HostPrefix \o path ELSE path
    IN IF target \notin exists
       THEN Sizing(-1, Human("Not found", 0), "error", target, FALSE)
       ELSE IF du.kind = "timeout"
       THEN Sizing(-1, Human("Timeout", timeout_sec), "error", target, TRUE)
       ELSE IF du.kind = "oserror"
       THEN Sizing(-1, Human("Error", 0), "error", target, TRUE)
       ELSE IF du.rc = 0 /\ Len(du.out) > 0
       THEN IF du.out[1].num
            THEN Sizing(du.out[1].val, human_bytes(du.out[1].val), "ok", target, TRUE)
            ELSE Sizing(-1, Human("Error", 0), "error", target, TRUE)
       ELSE Sizing(-1, Human("du error", Min(du.errlen, ErrSlice)), "error", target, TRUE)

get_upperdir_size_unnamed(path, timeout_sec, exists, du) ==
    LET target == IF ~StartsWith(path, HostPrefix) /\ path \notin exists
                  THEN HostPrefix \o path ELSE path
    IN IF target \notin exists
       THEN Sizing(-1, Human("Not found", 0), "error", target, FALSE)
       ELSE IF du.kind = "timeout"
       THEN Sizing(-1, Human("Timeout", 0), "error", target, TRUE)
       ELSE IF du.kind = "oserror"
       THEN Sizing(-1, Human("Error", 0), "error", target, TRUE)
       ELSE IF du.rc \in {0, 1} /\ Len(du.out) > 0
       THEN IF du.out[1].num
            THEN Sizing(du.out[1].val, human_bytes(du.out[1].val), "ok", target, TRUE)
            ELSE Sizing(-1, Human("Error", 0), "error", target, TRUE)
       ELSE Sizing(-1, Human("du error", Min(du.errlen, ErrSlice)), "error", target, TRUE)

\* overlay_utils.get_upperdir_size(path, timeout_sec); exists is the set of
\* paths that exist, du the outcome of the tool if it is run. The result
\* also records the path handed to du and whether du was run.
get_upperdir_size(path, timeout_sec, exists, du) ==
    LET target == IF ~StartsWith(path, HostPrefix) /\ path \notin exists
                  THEN HostPrefix \o path ELSE path
    IN IF target \notin exists
       THEN Sizing(-1, Human("Not found", 0), "error", target, FALSE)
       ELSE IF du.kind = "timeout"
       THEN Sizing(-1, Human("Timeout", timeout_sec), "error", target, TRUE)
       ELSE IF du.kind = "oserror"
       THEN Sizing(-1, Human("Error", 0), "error", target, TRUE)
       ELSE IF du.rc \in {0, 1} /\ Len(du.out) > 0
       THEN IF du.out[1].num
            THEN Sizing(du.out[1].val, human_bytes(du.out[1].val), "ok", target, TRUE)
            ELSE Sizing(-1, Human("Error", 0), "error", target, TRUE)
       ELSE Sizing(-1, Human("du error", Min(du.errlen, ErrSlice)), "error", target, TRUE)

PathSize(p, b, h, st) == [path |-> p, total_bytes |-> b, total_human |-> h, status |-> st]

\* main.api_paths_summary.get_path_size_fast(path)
get_path_size_fast(path, du) ==
    IF du.kind = "timeout" THEN PathSize(path, 0, Human("Timeout", 0), "error")
    ELSE IF du.kind = "oserror" THEN PathSize(path, 0, Human("Error", 0), "error")
    ELSE IF du.rc \in {0, 1} /\ Len(du.out) > 0
    THEN IF du.out[1].num
         THEN PathSize(path, du.out[1].val, human_bytes(du.out[1].val), "ok")
         ELSE PathSize(path, 0, Human("Error", 0), "error")
    ELSE PathSize(path, 0, Human("Error", 0), "error")

(***************************************************************************)
(* One measurement: get_upperdir_size applied to a path                    *)
(***************************************************************************)
NoSizing == Sizing(0, Human("", 0), "none", <<>>, FALSE)

MeasurePaths == {Str("/"), Str("/host"), Str("/u"), Str("/host/u"), Str("/hostp")}

\* "/" always exists; any of the other paths may
Worlds ==
    {{Str("/")} \cup w :
        w \in SUBSET {Str("/host"), Str("/u"), Str("/host/u"), Str("/hostp"),
                      Str("/host/hostp")}}

Timeouts == {10, 60}

IdleMeas == meas = [pc |-> "idle", path |-> <<>>, timeout_sec |-> 0, exists |-> {},
                    du |-> DuOSError, res |-> NoSizing]

InitMeas ==
    \E p \in MeasurePaths, t \in Timeouts, w \in Worlds, d \in DuOutcomes :
        meas = [pc |-> "call", path |-> p, timeout_sec |-> t, exists |-> w,
                du |-> d, res |-> NoSizing]

Measure ==
    /\ meas.pc = "call"
    /\ meas' = [meas EXCEPT !.pc = "done",
                  !.res = get_upperdir_size(meas.path, meas.timeout_sec,
                                            meas.exists, meas.du)]
    /\ UNCHANGED nonMeasVars

NextMeas == Measure

(***************************************************************************)
(* main.api_paths_summary: the five paths sized in a pool, collected as    *)
(* they complete, then sorted by total_bytes, largest first                *)
(***************************************************************************)
SummaryPaths == {"containerd", "containers", "kubelet pods", "log pods", "log containers"}

SummaryOutcomes ==
    {DuExit(0, <<Num(2), Junk>>, 0), DuExit(0, <<Num(0), Junk>>, 0),
     DuExit(2, <<>>, 30), DuTimeout}

IdleSum == sres = <<>> /\ spending = {} /\ spc = "idle"

InitSum == sres = <<>> /\ spending = SummaryPaths /\ spc = "pool"

\* main.py:272-275: a future completes and its result is appended
SummaryComplete ==
    /\ spc = "pool"
    /\ \E p \in spending, d \in SummaryOutcomes :
          /\ sres' = Append(sres, get_path_size_fast(p, d))
          /\ spending' = spending \ {p}
    /\ UNCHANGED spc
    /\ UNCHANGED nonSumVars

TotalDesc(rows) == [i \in 1..Len(rows) |-> <<0 - rows[i].total_bytes, 0>>]

\* main.py:277-280
SummarySort ==
    /\ spc = "pool"
    /\ spending = {}
    /\ sres' = StableSort(sres, TotalDesc(sres))
    /\ spc' = "done"
    /\ UNCHANGED spending
    /\ UNCHANGED nonSumVars

NextSum == SummaryComplete \/ SummarySort

(***************************************************************************)
(* overlay_utils.get_overlay_upperdirs. A container ID is a pair: its      *)
(* first 12 characters and the rest. A mountpoint is the sequence of its   *)
(* "/"-separated segments, the first one empty for an absolute path. A     *)
(* mountinfo line is given by what the scan reads of it: whether it holds  *)
(* " - overlay ", its number of whitespace-separated fields, its fifth     *)
(* field, and the value of its upperdir= option, if any.                   *)
(***************************************************************************)
MaxLines == 2
MaxVols == 1

IdA == <<"aaaaaaaaaaaa", "1">>
IdB == <<"bbbbbbbbbbbb", "1">>
IdC == <<"aaaaaaaaaaaa", "2">>

\* A line of output that is no container ID
Garbled == <<"level=warnin", "g msg">>

Marker == <<"k8s.io">>

Rootfs(id) == <<<<>>, <<"run">>, Marker, id, <<"rootfs">>>>

MountLine(overlay, nfields, mountpoint, upper) ==
    [overlay |-> overlay, nfields |-> nfields, mountpoint |-> mountpoint,
     upper |-> upper]

LineKinds ==
    {MountLine(TRUE, 11, Rootfs(IdA), <<"upperA">>),
     MountLine(TRUE, 11, Rootfs(IdB), <<"upperB">>),
     MountLine(TRUE, 11, <<<<>>, <<"var">>, <<"merged">>>>, <<"upperD">>),
     MountLine(FALSE, 11, Rootfs(IdA), <<>>),
     MountLine(TRUE, 4, <<>>, <<"upperA">>),
     MountLine(TRUE, 11, Rootfs(IdB), <<>>)}

MountTables == UNION {[1..n -> LineKinds] : n \in 0..MaxLines}

\* The outcome of "crictl ps -q": it exits with a code, having printed IDs
\* ("exit") or lines that are no IDs ("garbled"), or it raises (timeout, not
\* installed).
Crictl(kind, rc, ids) == [kind |-> kind, rc |-> rc, ids |-> ids]

CrictlOutcomes ==
    {Crictl("exit", 0, {}), Crictl("exit", 0, {IdA}), Crictl("exit", 0, {IdC}),
     Crictl("exit", 0, {IdA, IdB}), Crictl("exit", 1, {}), Crictl("raise", 0, {}),
     Crictl("garbled", 0, {Garbled})}

\* overlay_utils.get_running_container_ids
get_running_container_ids(r) ==
    IF r.kind = "raise" THEN {}
    ELSE IF r.rc = 0 /\ r.ids # {} THEN r.ids ELSE {}

NoInfo == [name |-> "", pod |-> "", namespace |-> ""]

InfoA == [name |-> "app", pod |-> "pod-a", namespace |-> "ns"]

\* The outcome of "crictl ps --output=json" and of "crictl pods
\* --output=json": the command exits with a code, having printed a JSON
\* document that lists entries ("exit") or text that is no such document
\* ("garbled"), or it raises (timeout, not installed).
Json(kind, rc, listed) == [kind |-> kind, rc |-> rc, listed |-> listed]

InfoOutcomes ==
    {Json("exit", 0, {IdA}), Json("exit", 1, {}), Json("raise", 0, {}),
     Json("garbled", 0, {})}

\* overlay_utils.get_container_info: the IDs that have an entry
get_container_info(r) ==
    IF r.kind = "exit" /\ r.rc = 0 THEN r.listed ELSE {}

PodA == "uid-a"
PodB == "uid-b"

PodOutcomes ==
    {Json("exit", 0, {PodA}), Json("exit", 1, {}), Json("raise", 0, {}),
     Json("garbled", 0, {})}

\* overlay_utils.get_pod_info: the pod UIDs that have an entry
get_pod_info(r) ==
    IF r.kind = "exit" /\ r.rc = 0 THEN r.listed ELSE {}

NoPod == [name |-> "", namespace |-> ""]

PodInfoA == [name |-> "pod-a", namespace |-> "ns"]

\* pod_info.get(pod_uid, {}) and the two info.get(.., "")
PodInfoOf(listed, uid) == IF uid \in listed THEN PodInfoA ELSE NoPod

\* One entry of os.listdir(base_path): a pod directory, whether it has an
\* empty-dir directory, the one name listed in it and whether that is a
\* directory; "unreadable" makes the listing raise.
PodDir(uid, emptydir, vol, isdir) ==
    [pod_uid |-> uid, emptydir |-> emptydir, vol |-> vol, isdir |-> isdir]

PodDirKinds ==
    {PodDir(PodA, TRUE, "cache", TRUE), PodDir(PodB, TRUE, "tmp", TRUE),
     PodDir(PodA, FALSE, "", FALSE), PodDir(PodB, TRUE, "file", FALSE),
     PodDir("unreadable", TRUE, "", FALSE)}

PodDirTables == UNION {[1..n -> PodDirKinds] : n \in 0..MaxVols}

\* What get_emptydir_volumes finds: whether the base path exists, the
\* outcome of the pod query, the pod directories
VolWorld(base, pods, dirs) == [base |-> base, pods |-> pods, dirs |-> dirs]

VolWorlds ==
    {VolWorld(b, q, t) : b \in BOOLEAN, q \in PodOutcomes, t \in PodDirTables}

VolumeRecord(d, listed) ==
    LET info == PodInfoOf(listed, d.pod_uid)
    IN [type |-> "emptydir", container_id |-> <<>>, container_name |-> d.vol,
        pod |-> info.name, namespace |-> info.namespace,
        path |-> <<d.pod_uid, d.vol>>, mountpoint |-> <<d.pod_uid, d.vol>>]

\* container_info.get(container_id_full, {}) and the three info.get(.., "")
InfoOf(listed, id) == IF id \in listed THEN InfoA ELSE NoInfo

MountinfoFiles == {"host", "local", "none"}

HasMarker(mp) == \E i \in 2..(Len(mp) - 1) : mp[i] = Marker

\* mountpoint.split("/k8s.io/")[1].split("/")[0]
ContainerIdOf(mp) ==
    mp[1 + CHOOSE i \in 2..(Len(mp) - 1) :
             mp[i] = Marker /\ \A j \in 2..(i - 1) : mp[j] # Marker]

\* container_id_full[:12]
ShortId(id) == IF Len(id) = 0 THEN <<>> ELSE <<id[1]>>

OverlayRecord(line, listed) ==
    LET id == ContainerIdOf(line.mountpoint)
        info == InfoOf(listed, id)
    IN [type |-> "overlay", container_id |-> ShortId(id),
        container_name |-> info.name, pod |-> info.pod,
        namespace |-> info.namespace, path |-> line.upper[1],
        mountpoint |-> line.mountpoint]

\* overlay_utils.py:131
NotRunning(running_ids, id) == running_ids # {} /\ id \notin running_ids

\* overlay_utils.py:106-132: the line is skipped
SkipLine(line, running_ids) ==
    \/ ~line.overlay
    \/ line.nfields < 5
    \/ ~HasMarker(line.mountpoint)
    \/ Len(line.upper) = 0
    \/ NotRunning(running_ids, ContainerIdOf(line.mountpoint))

IdleOv == ov = [pc |-> "idle", crictl |-> Crictl("raise", 0, {}),
                infoq |-> Json("raise", 0, {}), listed |-> {},
                file |-> "none", lines |-> <<>>, running_ids |-> {}, i |-> 0,
                results |-> <<>>,
                world |-> VolWorld(FALSE, Json("raise", 0, {}), <<>>),
                pod_info |-> {}, volumes |-> <<>>, all |-> <<>>]

\* get_all_writable_paths is called
OvStart(crictls, infos, tables, worlds) ==
    \E r \in crictls, l \in infos, f \in MountinfoFiles, t \in tables, w \in worlds :
        ov = [pc |-> "query", crictl |-> r, infoq |-> l, listed |-> {}, file |-> f,
              lines |-> t, running_ids |-> {}, i |-> 0, results |-> <<>>,
              world |-> w, pod_info |-> {}, volumes |-> <<>>, all |-> <<>>]

\* Every runtime answer and mount table, two volume layouts
InitOv ==
    OvStart(CrictlOutcomes, InfoOutcomes, MountTables,
            {VolWorld(FALSE, Json("raise", 0, {}), <<>>),
             VolWorld(TRUE, Json("exit", 0, {PodA}),
                      <<PodDir(PodA, TRUE, "cache", TRUE)>>)})

\* Every runtime answer and volume layout, tables of well-formed lines
InitDiscover ==
    OvStart(CrictlOutcomes, InfoOutcomes,
            UNION {[1..n -> {MountLine(TRUE, 11, Rootfs(IdA), <<"upperA">>),
                             MountLine(TRUE, 11, Rootfs(IdB), <<"upperB">>)}] :
                   n \in 0..MaxLines},
            VolWorlds)

\* The scan alone over longer mount tables: every kind of line, also a
\* mountpoint that ends right after the marker
ScanLineKinds ==
    LineKinds \cup {MountLine(TRUE, 11, <<<<>>, <<"run">>, Marker, <<>>>>, <<"upperE">>)}

InitScan ==
    OvStart({Crictl("exit", 0, {}), Crictl("exit", 0, {IdA})},
            {Json("exit", 0, {IdA})},
            UNION {[1..n -> ScanLineKinds] : n \in 0..(MaxLines + 1)},
            {VolWorld(FALSE, Json("raise", 0, {}), <<>>),
             VolWorld(TRUE, Json("exit", 0, {PodA}),
                      <<PodDir(PodA, TRUE, "cache", TRUE)>>)})

\* overlay_utils.py:88-100
OvQuery ==
    /\ ov.pc = "query"
    /\ ov' = [ov EXCEPT !.running_ids = get_running_container_ids(ov.crictl),
                        !.listed = get_container_info(ov.infoq),
                        !.pc = IF ov.file = "none" THEN "vols" ELSE "scan",
                        !.i = 1]
    /\ UNCHANGED nonOvVars

OvScanLine_abort ==
    /\ ov.pc = "scan"
    /\ ov.i <= Len(ov.lines)
    /\ ov' = IF SkipLine(ov.lines[ov.i], ov.running_ids)
             THEN [ov EXCEPT !.i = Len(ov.lines) + 1]
             ELSE [ov EXCEPT !.i = ov.i + 1,
                      !.results = Append(ov.results,
                                         OverlayRecord(ov.lines[ov.i], ov.listed))]
    /\ UNCHANGED nonOvVars

\* overlay_utils.py:105-145: one line of the mount table
OvScanLine ==
    /\ ov.pc = "scan"
    /\ ov.i <= Len(ov.lines)
    /\ ov' = [ov EXCEPT !.i = ov.i + 1,
                !.results = IF SkipLine(ov.lines[ov.i], ov.running_ids)
                            THEN ov.results
                            ELSE Append(ov.results,
                                        OverlayRecord(ov.lines[ov.i], ov.listed))]
    /\ UNCHANGED nonOvVars

\* overlay_utils.py:149
OvReturn ==
    /\ ov.pc = "scan"
    /\ ov.i > Len(ov.lines)
    /\ ov' = [ov EXCEPT !.pc = "vols"]
    /\ UNCHANGED nonOvVars

\* overlay_utils.py:156-163: get_emptydir_volumes starts
OvVolQuery ==
    /\ ov.pc = "vols"
    /\ ov' = IF ~ov.world.base
             THEN [ov EXCEPT !.pc = "done", !.all = ov.results]
             ELSE [ov EXCEPT !.pc = "volscan", !.i = 1,
                             !.pod_info = get_pod_info(ov.world.pods)]
    /\ UNCHANGED nonOvVars

\* overlay_utils.py:164-190: one pod directory; an exception ends the scan
OvVolScan ==
    /\ ov.pc = "volscan"
    /\ ov.i <= Len(ov.world.dirs)
    /\ LET d == ov.world.dirs[ov.i]
       IN ov' = IF d.pod_uid = "unreadable"
                THEN [ov EXCEPT !.i = Len(ov.world.dirs) + 1]
                ELSE [ov EXCEPT !.i = ov.i + 1,
                         !.volumes = IF d.emptydir /\ d.isdir
                                     THEN Append(ov.volumes, VolumeRecord(d, ov.pod_info))
                                     ELSE ov.volumes]
    /\ UNCHANGED nonOvVars

\* overlay_utils.py:194 and 197-202
OvVolReturn ==
    /\ ov.pc = "volscan"
    /\ ov.i > Len(ov.world.dirs)
    /\ ov' = [ov EXCEPT !.pc = "done", !.all = ov.results \o ov.volumes]
    /\ UNCHANGED nonOvVars

NextOv == OvQuery \/ OvScanLine \/ OvReturn \/ OvVolQuery \/ OvVolScan \/ OvVolReturn

(***************************************************************************)
(* The node scripts (check_node_storage_standalone.py and the script       *)
(* embedded in ansible_check_node.py): main() sizes the discovered items   *)
(* in a thread pool, collects the results as they complete, filters,       *)
(* sorts and summarizes them.                                              *)
(***************************************************************************)
MaxItems == 3

Item(type, name, path, exists, du) ==
    [type |-> type, container_name |-> name, path |-> path, exists |-> exists, du |-> du]

\* work(item): the item with the three results of get_upperdir_size
work(item, timeout_sec) ==
    LET r == get_upperdir_size(item.path, timeout_sec, item.exists, item.du)
    IN [type |-> item.type, container_name |-> item.container_name,
        path |-> item.path, actual_bytes |-> r.bytes, actual_human |-> r.human,
        actual_status |-> r.status]

NoResult == [type |-> "", container_name |-> "", path |-> <<>>, actual_bytes |-> 0,
             actual_human |-> Human("", 0), actual_status |-> "none"]

\* The filter of the collection loop: the result is dropped
\* (standalone 426-427; embedded script 725-730, where min_size exists)
Dropped_any_status(r, args) ==
    \/ args.skip_zero /\ r.actual_bytes = 0
    \/ args.min_size > 0 /\ r.actual_bytes < args.min_size

Dropped(r, args) ==
    IF args.script = "standalone"
    THEN args.skip_zero /\ r.actual_status = "ok" /\ r.actual_bytes = 0
    ELSE r.actual_status = "ok" /\
         (\/ args.skip_zero /\ r.actual_bytes = 0
          \/ args.min_size > 0 /\ r.actual_bytes < args.min_size)

\* The order of the type strings and of the names, as Python compares them
TypeRank(t) == CASE t = "empty-dir" -> 1 [] t = "emptydir" -> 2
                 [] t = "overlay" -> 3 [] t = "projected" -> 4

NameRank(n) == CASE n = "" -> 0 [] n = "a" -> 1 [] n = "b" -> 2 [] n = "c" -> 3

SizeKey_ascending(rows) == [i \in 1..Len(rows) |-> <<rows[i].actual_bytes, 0>>]

\* key=lambda x: x.get('actual_bytes', -1), reverse=True
SizeKey(rows) == [i \in 1..Len(rows) |-> <<0 - rows[i].actual_bytes, 0>>]

\* key=lambda x: x.get('container_name', '')
NameKey(rows) == [i \in 1..Len(rows) |-> <<NameRank(rows[i].container_name), 0>>]

\* key=lambda x: (x.get('type', ''), -x.get('actual_bytes', -1))
TypeKey(rows) ==
    [i \in 1..Len(rows) |-> <<TypeRank(rows[i].type), 0 - rows[i].actual_bytes>>]

SortKeys(rows, sort) ==
    CASE sort = "size" -> SizeKey(rows)
      [] sort = "name" -> NameKey(rows)
      [] sort = "type" -> TypeKey(rows)

RECURSIVE SummaryFrom(_, _, _)
SummaryFrom(rows, i, acc) ==
    IF i > Len(rows) THEN acc
    ELSE LET r == rows[i]
             a1 == IF r.actual_status = "ok"
                   THEN [acc EXCEPT !.total_bytes = @ + r.actual_bytes]
                   ELSE [acc EXCEPT !.error_count = @ + 1]
             a2 == IF r.type = "overlay"
                   THEN [a1 EXCEPT !.overlay_count = @ + 1]
                   ELSE IF acc.script = "standalone" /\ r.type # "emptydir" THEN a1
                   ELSE [a1 EXCEPT !.volume_count = @ + 1]
         IN SummaryFrom(rows, i + 1, a2)

RECURSIVE SummaryAll(_, _, _)
SummaryAll(rows, i, acc) ==
    IF i > Len(rows) THEN acc
    ELSE LET r == rows[i]
             a1 == IF r.actual_status = "ok"
                   THEN [acc EXCEPT !.total_bytes = @ + r.actual_bytes]
                   ELSE [acc EXCEPT !.total_bytes = @ + r.actual_bytes,
                                    !.error_count = @ + 1]
             a2 == IF r.type = "overlay"
                   THEN [a1 EXCEPT !.overlay_count = @ + 1]
                   ELSE [a1 EXCEPT !.volume_count = @ + 1]
         IN SummaryAll(rows, i + 1, a2)

NoSummary(script) == [script |-> script, printed |-> FALSE, total_bytes |-> 0,
                      overlay_count |-> 0, volume_count |-> 0, error_count |-> 0]

print_summary_all(rows, script) ==
    [SummaryAll(rows, 1, NoSummary(script)) EXCEPT !.printed = TRUE]

\* print_summary(items): volume_count is emptydir_count in the standalone
\* script and vol_count in the embedded one
print_summary(rows, script) ==
    [SummaryFrom(rows, 1, NoSummary(script)) EXCEPT !.printed = TRUE]

\* The parsed arguments; --timeout keeps its default, 60
Args(script, skip_zero, min_size, workers, sort) ==
    [script |-> script, skip_zero |-> skip_zero, min_size |-> min_size,
     workers |-> workers, timeout_sec |-> 60, sort |-> sort]

IdleBatch ==
    /\ bargs = Args("standalone", FALSE, 0, 1, "size")
    /\ items = <<>>
    /\ fstate = <<>>
    /\ fres = <<>>
    /\ doneq = <<>>
    /\ completed = <<>>
    /\ results = <<>>
    /\ presort = <<>>
    /\ bpc = "idle"
    /\ summary = NoSummary("standalone")

\* get_all_writable_paths returned itemlist; the arguments are parsed
InitBatch(argsets, itemsets) ==
    /\ bargs \in argsets
    /\ \E n \in 0..MaxItems : items \in [1..n -> itemsets[bargs.script]]
    /\ fstate = [i \in 1..Len(items) |-> "queued"]
    /\ fres = [i \in 1..Len(items) |-> NoResult]
    /\ doneq = <<>>
    /\ completed = <<>>
    /\ results = <<>>
    /\ presort = <<>>
    /\ bpc = "start"
    /\ summary = NoSummary(bargs.script)

\* standalone 398-404, embedded 707-711: nothing found, main returns
BEmpty ==
    /\ bpc = "start"
    /\ items = <<>>
    /\ bpc' = "exit"
    /\ UNCHANGED <<bargs, items, fstate, fres, doneq, completed, results, presort, summary>>
    /\ UNCHANGED nonBatchVars

\* executor.submit for every item (standalone 419-420)
BSubmit ==
    /\ bpc = "start"
    /\ items # <<>>
    /\ bpc' = "pool"
    /\ UNCHANGED <<bargs, items, fstate, fres, doneq, completed, results, presort, summary>>
    /\ UNCHANGED nonBatchVars

Running == {i \in 1..Len(items) : fstate[i] = "running"}

BStart_eager ==
    /\ bpc = "pool"
    /\ \E i \in 1..Len(items) :
          /\ fstate[i] = "queued"
          /\ \A j \in 1..(i - 1) : fstate[j] # "queued"
          /\ fstate' = [fstate EXCEPT ![i] = "running"]
    /\ UNCHANGED <<bargs, items, fres, doneq, completed, results, presort, bpc, summary>>
    /\ UNCHANGED nonBatchVars

\* A free worker thread takes the oldest queued work item
BStart ==
    /\ bpc = "pool"
    /\ Cardinality(Running) < bargs.workers
    /\ \E i \in 1..Len(items) :
          /\ fstate[i] = "queued"
          /\ \A j \in 1..(i - 1) : fstate[j] # "queued"
          /\ fstate' = [fstate EXCEPT ![i] = "running"]
    /\ UNCHANGED <<bargs, items, fres, doneq, completed, results, presort, bpc, summary>>
    /\ UNCHANGED nonBatchVars

\* work(item) returns in its thread: the future completes
BFinish ==
    /\ bpc = "pool"
    /\ \E i \in Running :
          /\ fstate' = [fstate EXCEPT ![i] = "finished"]
          /\ fres' = [fres EXCEPT ![i] = work(items[i], bargs.timeout_sec)]
          /\ doneq' = Append(doneq, i)
          /\ completed' = Append(completed, i)
    /\ UNCHANGED <<bargs, items, results, presort, bpc, summary>>
    /\ UNCHANGED nonBatchVars

BCollect_input_order ==
    /\ bpc = "pool"
    /\ \E i \in 1..Len(items) :
          /\ fstate[i] = "finished"
          /\ \A j \in 1..(i - 1) : fstate[j] = "collected"
          /\ fstate' = [fstate EXCEPT ![i] = "collected"]
          /\ results' = IF Dropped(fres[i], bargs) THEN results
                        ELSE Append(results, fres[i])
          /\ doneq' = SelectSeq(doneq, LAMBDA j : j # i)
    /\ UNCHANGED <<bargs, items, fres, completed, presort, bpc, summary>>
    /\ UNCHANGED nonBatchVars

\* One turn of the as_completed loop (standalone 422-430, embedded 723-731)
BCollect ==
    /\ bpc = "pool"
    /\ doneq # <<>>
    /\ LET i == Head(doneq)
       IN /\ fstate' = [fstate EXCEPT ![i] = "collected"]
          /\ results' = IF Dropped(fres[i], bargs) THEN results
                        ELSE Append(results, fres[i])
    /\ doneq' = Tail(doneq)
    /\ UNCHANGED <<bargs, items, fres, completed, presort, bpc, summary>>
    /\ UNCHANGED nonBatchVars

\* The loop ends; with nothing to show main returns (standalone 434-436)
BPoolEnd ==
    /\ bpc = "pool"
    /\ \A i \in 1..Len(items) : fstate[i] = "collected"
    /\ bpc' = IF results = <<>> THEN "exit" ELSE "sort"
    /\ presort' = results
    /\ UNCHANGED <<bargs, items, fstate, fres, doneq, completed, results, summary>>
    /\ UNCHANGED nonBatchVars

\* standalone 438-444, embedded 743-748
BSort ==
    /\ bpc = "sort"
    /\ results' = StableSort(results, SortKeys(results, bargs.sort))
    /\ bpc' = "print"
    /\ UNCHANGED <<bargs, items, fstate, fres, doneq, completed, presort, summary>>
    /\ UNCHANGED nonBatchVars

\* standalone 447-451, embedded 750-755
BSummary ==
    /\ bpc = "print"
    /\ summary' = print_summary(results, bargs.script)
    /\ bpc' = "exit"
    /\ UNCHANGED <<bargs, items, fstate, fres, doneq, completed, results, presort>>
    /\ UNCHANGED nonBatchVars

\* embedded 754: --quiet or --no-summary
BNoSummary ==
    /\ bpc = "print"
    /\ bargs.script = "embedded"
    /\ bpc' = "exit"
    /\ UNCHANGED <<bargs, items, fstate, fres, doneq, completed, results, presort, summary>>
    /\ UNCHANGED nonBatchVars

\* What exists on the node: "/d" as given, "/u" only under the host prefix
BatchWorld == {Str("/d"), Str("/host/u")}

Present(type, name, du) == Item(type, name, Str("/d"), BatchWorld, du)
Gone(type, name) == Item(type, name, Str("/db"), BatchWorld, DuOSError)
HostOnly(type, name, du) == Item(type, name, Str("/u"), BatchWorld, du)

DuPrints(n) == DuExit(0, <<Num(n), Junk>>, 0)

\* The runs of the pool: both scripts, every filter, one or two workers
PoolArgs ==
    {Args("standalone", z, 0, w, "size") : z \in BOOLEAN, w \in {1, 2}}
    \cup {Args("embedded", z, m, w, "size") : z \in BOOLEAN, m \in {0, 2}, w \in {1, 2}}

PoolItemsOf ==
    {Present("overlay", "a", DuPrints(0)), Present("overlay", "a", DuPrints(1)),
     Present("overlay", "a", DuPrints(2)), Present("overlay", "a", DuExit(2, <<>>, 100)),
     Gone("overlay", "a"), HostOnly("overlay", "a", DuPrints(2))}

PoolItems == [script \in {"standalone", "embedded"} |-> PoolItemsOf]

\* The runs of the report: no filter, one worker, every sort key
ReportArgs ==
    {Args(sc, FALSE, 0, 1, so) : sc \in {"standalone", "embedded"},
                                 so \in {"size", "name", "type"}}

ReportItemsOf(types) ==
    UNION {{Present(t, n, DuPrints(1)), Present(t, n, DuPrints(2)), Gone(t, n)} :
           t \in types, n \in {"a", "b"}}

ReportItems ==
    [script \in {"standalone", "embedded"} |->
        IF script = "standalone" THEN ReportItemsOf({"overlay", "emptydir"})
        ELSE ReportItemsOf({"overlay", "empty-dir"})]

\* The runs with a slow tool: no filter, one or two workers, --timeout 10
\* or the default
SlowArgs ==
    {[Args(sc, FALSE, 0, w, "size") EXCEPT !.timeout_sec = t] :
        sc \in {"standalone", "embedded"}, w \in {1, 2}, t \in Timeouts}

SlowItems ==
    [script \in {"standalone", "embedded"} |->
        {Present("overlay", "a", DuPrints(2)), Present("overlay", "b", DuTimeout),
         Gone("overlay", "c")}]

InitPool == InitBatch(PoolArgs, PoolItems)
InitSlow == InitBatch(SlowArgs, SlowItems)
InitReport == InitBatch(ReportArgs, ReportItems)

NextBatch ==
    \/ BEmpty
    \/ BSubmit
    \/ BStart
    \/ BFinish
    \/ BCollect
    \/ BPoolEnd
    \/ BSort
    \/ BSummary
    \/ BNoSummary

(***************************************************************************)
(* ansible_check_node.select_target: the host list is read from the        *)
(* inventory, then the prompt repeats until an input is accepted. An input *)
(* is the word "all" or a comma-separated list of tokens; a token is a     *)
(* number or something that is no number.                                  *)
(***************************************************************************)
MaxHosts == 2
MaxNums == 2
MaxPrompts == 2

Host(i) == <<"node", i>>

\* get_inventory_hosts: the hosts ansible lists, none on any failure
Inventories == {[i \in 1..n |-> Host(i)] : n \in 0..MaxHosts}

Digits(n) == [digit |-> TRUE, n |-> n]
NoDigits == [digit |-> FALSE, n |-> 0]

Tokens == {Digits(n) : n \in 0..(MaxHosts + 1)} \cup {NoDigits}

Choice(all, nums) == [all |-> all, nums |-> nums]

Choices ==
    {Choice(TRUE, <<>>)}
    \cup {Choice(FALSE, ns) : ns \in UNION {[1..k -> Tokens] : k \in 1..MaxNums}}

\* ansible_check_node.py:446-453: the hosts the numbers of the input name
RECURSIVE Picked(_, _, _)
Picked(all_hosts, nums, k) ==
    IF k > Len(nums) THEN <<>>
    ELSE LET idx == nums[k].n - 1
             here == IF nums[k].digit /\ 0 <= idx /\ idx < Len(all_hosts)
                     THEN <<all_hosts[idx + 1]>> ELSE <<>>
         IN here \o Picked(all_hosts, nums, k + 1)

Retry == [ret |-> FALSE, target |-> "none", selected |-> <<>>]

Return(target, selected) == [ret |-> TRUE, target |-> target, selected |-> selected]

select_target_any(all_hosts, watch_mode, choice) ==
    IF choice.all THEN Return("all", all_hosts)
    ELSE LET selected == Picked(all_hosts, choice.nums, 1)
         IN IF selected # <<>> THEN Return("custom", selected) ELSE Retry

\* ansible_check_node.py:426-458: one turn of the prompt loop
select_target(all_hosts, watch_mode, choice) ==
    IF choice.all
    THEN IF watch_mode THEN Retry ELSE Return("all", all_hosts)
    ELSE IF watch_mode /\ Len(choice.nums) > 1 THEN Retry
    ELSE LET selected == Picked(all_hosts, choice.nums, 1)
         IN IF selected # <<>> THEN Return("custom", selected) ELSE Retry

NoSel == [pc |-> "idle", watch |-> FALSE, hosts |-> <<>>, target |-> "none",
          selected |-> <<>>, prompts |-> 0, last |-> Choice(FALSE, <<>>)]

IdleSel == sel = NoSel

\* ansible_check_node.py:400-409: select_target(inventory_file, watch_mode)
\* is called; with no host it returns at once
SelCalled(watch_mode, all_hosts) ==
    [NoSel EXCEPT !.pc = IF all_hosts = <<>> THEN "returned" ELSE "prompt",
                  !.watch = watch_mode, !.hosts = all_hosts]

\* One input at the prompt
SelInput ==
    /\ sel.pc = "prompt"
    /\ sel.prompts < MaxPrompts
    /\ \E ch \in Choices :
          LET r == select_target(sel.hosts, sel.watch, ch)
          IN sel' = [sel EXCEPT !.pc = IF r.ret THEN "returned" ELSE "prompt",
                                !.target = r.target, !.selected = r.selected,
                                !.prompts = sel.prompts + 1, !.last = ch]
    /\ UNCHANGED nonSelVars

(***************************************************************************)
(* The command-line tools: the standalone script, the script embedded for  *)
(* the remote nodes, and ansible_check_node.py, which asks for the hosts   *)
(* and runs once or refreshes until it is stopped.                         *)
(***************************************************************************)
MaxIterations == 2

NoCli == [pc |-> "idle", tool |-> "standalone", watch |-> FALSE, code |-> -1,
          cause |-> "none", at |-> "idle", iteration |-> 0]

IdleCli == cli = NoCli

InitCli ==
    \E t \in {"standalone", "embedded", "ansible"}, w \in BOOLEAN :
        /\ w => t = "ansible"
        /\ cli = [NoCli EXCEPT !.pc = "start", !.tool = t, !.watch = w]

Exit(code, cause) ==
    cli' = [cli EXCEPT !.pc = "exit", !.code = code, !.cause = cause, !.at = cli.pc]

\* standalone 349-458 and 461-471, embedded 691-763: main() returns, or
\* calls sys.exit(0) when nothing was found
CliScript ==
    /\ cli.pc = "start"
    /\ cli.tool \in {"standalone", "embedded"}
    /\ \E cause \in {"empty", "completed"} : Exit(0, cause)
    /\ UNCHANGED nonCliVars

\* ansible_check_node.py:894-896: the inventory file is checked
CliInventory ==
    /\ cli.pc = "start"
    /\ cli.tool = "ansible"
    /\ \E found \in BOOLEAN :
          IF found THEN cli' = [cli EXCEPT !.pc = "select"]
          ELSE Exit(1, "noinventory")
    /\ sel' = sel
    /\ UNCHANGED <<duVars, measVars, sumVars, ovVars, batchVars, api, extraVars>>

\* ansible_check_node.py:954: select_target is called
CliSelect ==
    /\ cli.pc = "select"
    /\ sel.pc = "idle"
    /\ \E hs \in Inventories : sel' = SelCalled(cli.watch, hs)
    /\ cli' = cli
    /\ UNCHANGED <<duVars, measVars, sumVars, ovVars, batchVars, api, extraVars>>

\* ansible_check_node.py:956-958
CliHosts ==
    /\ cli.pc = "select"
    /\ sel.pc = "returned"
    /\ IF sel.selected = <<>> THEN Exit(1, "nohosts")
       ELSE cli' = [cli EXCEPT !.pc = "confirm"]
    /\ UNCHANGED nonCliVars

\* ansible_check_node.py:965-968 and 986-988
CliConfirm ==
    /\ cli.pc = "confirm"
    /\ \E yes \in BOOLEAN :
          IF yes THEN cli' = [cli EXCEPT !.pc = IF cli.watch THEN "watching" ELSE "run"]
          ELSE Exit(0, "cancelled")
    /\ UNCHANGED nonCliVars

\* ansible_check_node.py:993-1013: one refresh of watch mode
CliRefresh ==
    /\ cli.pc = "watching"
    /\ cli.iteration < MaxIterations
    /\ cli' = [cli EXCEPT !.iteration = cli.iteration + 1]
    /\ UNCHANGED nonCliVars

\* ansible_check_node.py:1021-1023: the one-shot run, then main returns
CliRunOnce ==
    /\ cli.pc = "run"
    /\ Exit(0, "completed")
    /\ UNCHANGED nonCliVars

InterruptCode_one(tool, at) == 1

\* The exit code after Ctrl+C: 1 from every entry point (standalone
\* 464-466, embedded 759-761, ansible 1029-1031), 0 from the handler around
\* the refresh loop (ansible 1016-1018)
InterruptCode(tool, at) == IF tool = "ansible" /\ at = "watching" THEN 0 ELSE 1

\* KeyboardInterrupt is raised wherever the tool is
CliInterrupt ==
    /\ cli.pc \notin {"idle", "exit"}
    /\ Exit(InterruptCode(cli.tool, cli.pc), "interrupt")
    /\ UNCHANGED nonCliVars

\* Another exception reaches the entry point (standalone 467-471, embedded
\* 762-763, ansible 1032-1036)
CliError ==
    /\ cli.pc \notin {"idle", "exit"}
    /\ Exit(1, "error")
    /\ UNCHANGED nonCliVars

NextCli ==
    \/ CliScript
    \/ CliInventory
    \/ CliSelect
    \/ SelInput
    \/ CliHosts
    \/ CliConfirm
    \/ CliRefresh
    \/ CliRunOnce
    \/ CliInterrupt
    \/ CliError

(***************************************************************************)
(* main.api_du: the drill-down endpoint. ALLOWED_ROOTS is fixed when the   *)
(* service starts; a request brings a path and a depth. For depth 0 the    *)
(* endpoint looks the path up in the mount list and sizes it itself; for   *)
(* any other depth, and when its own du exits with a code other than 0 or  *)
(* 1, it calls list_children_sizes.                                        *)
(***************************************************************************)
\* The request paths: absolute, relative, empty, with a null byte
ApiPaths == {Str("/d"), Str("/db"), Str("/d/d"), <<"d">>, <<>>, <<SEP, "d", NUL>>}

ApiRoots == {<<>>, <<Str("/d")>>, <<Str("/")>>}

ApiDepths == {0, 1, 2}

\* What the mount list says of the path: it is no mountpoint, or it is one
\* and get_actual_mount_size returns status ok or another status
MountAnswers == {"none", "ok", "error"}

NoApi == [pc |-> "idle", roots |-> <<>>, path |-> <<>>, depth |-> 0,
          mount |-> "none", du |-> DuOSError, status |-> 0, answer |-> "none",
          sized |-> FALSE]

IdleApi == api = NoApi

IdleFront == IdleApi /\ IdleCli /\ IdleSel

InitApi == \E rl \in ApiRoots : api = [NoApi EXCEPT !.pc = "wait", !.roots = rl]

\* A GET /api/du arrives (main.py:56-57)
ApiRequest ==
    /\ api.pc = "wait"
    /\ \E p \in ApiPaths, d \in ApiDepths, m \in MountAnswers, o \in DuOutcomes :
          api' = [api EXCEPT !.pc = IF d = 0 THEN "depth0" ELSE "call",
                             !.path = p, !.depth = d, !.mount = m, !.du = o]
    /\ UNCHANGED nonApiVars

\* An HTTPException raised inside the try block of api_du is caught by its
\* last handler, "except Exception" (main.py:131-132)
Reraised(status) == 500

\* main.py:60-118, the branch for depth 0. The result is the response, or
\* "call" when control falls through to list_children_sizes.
ApiDepthZero(path, roots, mount, du) ==
    IF mount = "ok" THEN [pc |-> "done", status |-> 200, answer |-> "size", sized |-> TRUE]
    ELSE IF mount = "error"
    THEN [pc |-> "done", status |-> Reraised(504), answer |-> "error", sized |-> TRUE]
    ELSE IF Len(roots) > 0 /\ ~(\E i \in 1..Len(roots) : is_within(roots[i], path))
    THEN [pc |-> "done", status |-> Reraised(403), answer |-> "error", sized |-> FALSE]
    ELSE IF Contains(path, NUL)
    THEN [pc |-> "done", status |-> Reraised(500), answer |-> "error", sized |-> FALSE]
    ELSE IF du.kind = "timeout"
    THEN [pc |-> "done", status |-> Reraised(504), answer |-> "error", sized |-> TRUE]
    ELSE IF du.kind = "oserror"
    THEN [pc |-> "done", status |-> Reraised(500), answer |-> "error", sized |-> FALSE]
    ELSE IF du.rc \in {0, 1}
    THEN IF Len(du.out) > 0 /\ du.out[1].num
         THEN [pc |-> "done", status |-> 200, answer |-> "size", sized |-> TRUE]
         ELSE [pc |-> "done", status |-> Reraised(500), answer |-> "error", sized |-> TRUE]
    ELSE [pc |-> "call", status |-> 0, answer |-> "none", sized |-> TRUE]

ApiZero ==
    /\ api.pc = "depth0"
    /\ LET r == ApiDepthZero(api.path, api.roots, api.mount, api.du)
       IN api' = [api EXCEPT !.pc = r.pc, !.status = r.status, !.answer = r.answer,
                             !.sized = r.sized]
    /\ UNCHANGED nonApiVars

\* main.py:121-124: list_children_sizes is called with DU_ONE_FS and
\* ALLOWED_ROOTS
ApiCall ==
    /\ api.pc = "call"
    /\ ncalls = 0
    /\ \E c \in Callers : Call(c, {Input(api.path, api.depth, TRUE)}, {api.roots})

\* main.py:121-132: what list_children_sizes returned or raised becomes the
\* response
StatusOf(result) ==
    CASE result = "ok" -> 200
      [] result = "Forbidden" -> 403
      [] result = "InvalidPath" -> 400
      [] result \in {"RuntimeError", "TimeoutExpired"} -> 500

ApiAnswer ==
    /\ api.pc = "call"
    /\ \E c \in Callers :
          /\ req[c].pc = "done"
          /\ api' = [api EXCEPT !.pc = "done", !.status = StatusOf(req[c].result),
                        !.answer = IF req[c].result = "ok" THEN "size" ELSE "error",
                        !.sized = api.sized \/ req[c].scanned]
    /\ UNCHANGED nonApiVars

NextApi ==
    \/ ApiRequest
    \/ ApiZero
    \/ ApiCall
    \/ ApiAnswer
    \/ ValidateStep
    \/ CheckRootsStep
    \/ GetReadStep
    \/ ScanStep
    \/ CacheSetStep
    \/ RespondStep

(***************************************************************************)
(* Pod-volume enumeration. The repository holds four implementations:      *)
(* overlay_utils.get_emptydir_volumes, the standalone script's             *)
(* get_emptydir_volumes, and get_emptydir_volumes and get_pod_volumes of   *)
(* the scripts embedded in ansible_check_node.py. Each picks the pods      *)
(* root, queries the pods, and lists the pod directories inside one try    *)
(* block.                                                                  *)
(***************************************************************************)
VolImpls == {"overlay_utils", "standalone", "embedded_emptydir", "embedded_pod_volumes"}

\* Whether the implementation tries /var/lib/kubelet/pods when
\* /host/var/lib/kubelet/pods does not exist (overlay_utils.py:156-158 does
\* not; standalone 209-214, ansible 182-186 and 587-591 do)
LocalFallback(impl) == impl # "overlay_utils"

\* The pods root the enumeration lists, "none" when it returns at once
base_path(impl, host, local) ==
    IF host THEN "host"
    ELSE IF LocalFallback(impl) /\ local THEN "local"
    ELSE "none"

VolDirTables == UNION {[1..n -> PodDirKinds] : n \in 0..(MaxVols + 1)}

\* results.append({...}) of the enumeration, the path under the root in use
VolRecord(base, d, listed) ==
    [VolumeRecord(d, listed) EXCEPT !.path = <<base>> \o @,
                                    !.mountpoint = <<base>> \o @]

NoVol == [pc |-> "idle", impl |-> "overlay_utils", host |-> FALSE, local |-> FALSE,
          pods |-> Json("raise", 0, {}), dirs |-> <<>>, base |-> "none",
          pod_info |-> {}, i |-> 0, results |-> <<>>, raised |-> 0]

IdleVol == pv = NoVol

\* The enumeration is called on a node: which roots exist, what the pod
\* query answers, the pod directories of the root
InitVol ==
    \E impl \in VolImpls, h \in BOOLEAN, l \in BOOLEAN, q \in PodOutcomes,
       t \in VolDirTables :
        pv = [NoVol EXCEPT !.pc = "start", !.impl = impl, !.host = h, !.local = l,
                           !.pods = q, !.dirs = t]

\* The root is chosen and the pods are queried (overlay_utils.py:156-163)
VolStart ==
    /\ pv.pc = "start"
    /\ LET b == base_path(pv.impl, pv.host, pv.local)
       IN pv' = IF b = "none"
                THEN [pv EXCEPT !.pc = "done"]
                ELSE [pv EXCEPT !.pc = "scan", !.base = b, !.i = 1,
                                !.pod_info = get_pod_info(pv.pods)]
    /\ UNCHANGED nonVolVars

\* One pod directory (overlay_utils.py:165-190); a listing that raises
\* leaves the loop for the handler at 191-194
VolScanDir ==
    /\ pv.pc = "scan"
    /\ pv.i <= Len(pv.dirs)
    /\ LET d == pv.dirs[pv.i]
       IN pv' = IF d.pod_uid = "unreadable"
                THEN [pv EXCEPT !.pc = "done", !.raised = pv.i]
                ELSE [pv EXCEPT !.i = pv.i + 1,
                         !.results = IF d.emptydir /\ d.isdir
                                     THEN Append(pv.results,
                                                 VolRecord(pv.base, d, pv.pod_info))
                                     ELSE pv.results]
    /\ UNCHANGED nonVolVars

\* The loop ends and the list is returned (overlay_utils.py:194)
VolReturn ==
    /\ pv.pc = "scan"
    /\ pv.i > Len(pv.dirs)
    /\ pv' = [pv EXCEPT !.pc = "done"]
    /\ UNCHANGED nonVolVars

NextVol == VolStart \/ VolScanDir \/ VolReturn

(***************************************************************************)
(* du_runner.run_du_parallel at depth 1: the directory is listed, its      *)
(* subdirectories are sized by get_dir_size_fast in a thread pool, the     *)
(* results are taken as the futures complete, and the row of the directory *)
(* itself is appended.                                                     *)
(***************************************************************************)
MaxSubdirs == 3
MaxFiles == 2

\* max_workers=min(10, len(subdirs))
PoolWorkers == 10

\* What get_dir_size_fast does for one subdirectory: it returns a size (0
\* when the subdirectory cannot be read), or an exception other than
\* OSError leaves it
Sub(raises, size) == [raises |-> raises, size |-> size]

SubKinds == {Sub(FALSE, 0), Sub(FALSE, 1), Sub(FALSE, 2), Sub(TRUE, 0)}

ParentRow(bytes) == [parent |-> TRUE, sub |-> 0, bytes |-> bytes]

ChildRow(i, bytes) == [parent |-> FALSE, sub |-> i, bytes |-> bytes]

NoPar == [pc |-> "idle", files_size |-> 0, subdirs |-> <<>>, fut |-> <<>>,
          entries |-> <<>>, total_size |-> 0]

IdlePar == par = NoPar

\* run_du_parallel(path, 1) is called on a directory: the sizes of its
\* regular files and its subdirectories (du_runner.py:60-81)
InitPar ==
    \E f \in 0..MaxFiles, s \in UNION {[1..n -> SubKinds] : n \in 0..MaxSubdirs} :
        par = [NoPar EXCEPT !.pc = "listed", !.files_size = f, !.subdirs = s,
                            !.fut = [i \in 1..Len(s) |-> "pending"]]

\* du_runner.py:83-92: the futures are submitted
ParSubmit ==
    /\ par.pc = "listed"
    /\ par' = [par EXCEPT !.pc = "pool", !.total_size = par.files_size]
    /\ UNCHANGED nonParVars

ParRunning == {i \in 1..Len(par.fut) : par.fut[i] = "running"}

\* A pool thread takes a subdirectory
ParStart ==
    /\ par.pc = "pool"
    /\ Cardinality(ParRunning) < Min(PoolWorkers, Len(par.subdirs))
    /\ \E i \in 1..Len(par.fut) :
          /\ par.fut[i] = "pending"
          /\ par' = [par EXCEPT !.fut[i] = "running"]
    /\ UNCHANGED nonParVars

\* get_dir_size_fast returns or raises in its thread
ParFinish ==
    /\ par.pc = "pool"
    /\ \E i \in ParRunning : par' = [par EXCEPT !.fut[i] = "finished"]
    /\ UNCHANGED nonParVars

ParCollect_nosum ==
    /\ par.pc = "pool"
    /\ \E i \in 1..Len(par.fut) :
          /\ par.fut[i] = "finished"
          /\ par' = IF par.subdirs[i].raises
                    THEN [par EXCEPT !.fut[i] = "collected"]
                    ELSE [par EXCEPT !.fut[i] = "collected",
                             !.entries = Append(par.entries,
                                                ChildRow(i, par.subdirs[i].size))]
    /\ UNCHANGED nonParVars

\* du_runner.py:94-102: as_completed hands over a finished future
ParCollect ==
    /\ par.pc = "pool"
    /\ \E i \in 1..Len(par.fut) :
          /\ par.fut[i] = "finished"
          /\ par' = IF par.subdirs[i].raises
                    THEN [par EXCEPT !.fut[i] = "collected"]
                    ELSE [par EXCEPT !.fut[i] = "collected",
                             !.entries = Append(par.entries,
                                                ChildRow(i, par.subdirs[i].size)),
                             !.total_size = par.total_size + par.subdirs[i].size]
    /\ UNCHANGED nonParVars

\* du_runner.py:104-106
ParReturn ==
    /\ par.pc = "pool"
    /\ \A i \in 1..Len(par.fut) : par.fut[i] = "collected"
    /\ par' = [par EXCEPT !.pc = "done",
                          !.entries = Append(par.entries, ParentRow(par.total_size))]
    /\ UNCHANGED nonParVars

NextPar == ParSubmit \/ ParStart \/ ParFinish \/ ParCollect \/ ParReturn

(***************************************************************************)
(* ansible_check_node.main: from the command line and the menus to the     *)
(* arguments of the node script. min_size_gb is a Python float: 0, 1, the  *)
(* literal 0.1, or args.min_size / 2^30. A float is kept here as the       *)
(* fraction num/den it stands for; dividing an integer below 2^53 by 2^30  *)
(* and multiplying it back are exact, and the double nearest to 0.1        *)
(* differs from 1/10 by less than 10^-17, which does not move              *)
(* int(0.1 * 2^30) = int(107374182.4).                                     *)
(***************************************************************************)
GiB == 1073741824

Frac(num, den) == [num |-> num, den |-> den]

\* int(min_size_gb * 1024 * 1024 * 1024), ansible_check_node.py:977
min_size_bytes(gb) ==
    IF gb.den = GiB THEN gb.num
    ELSE gb.num * (GiB \div gb.den)

\* --min-size values on the command line, 0 when the option is not given
MinSizes == {0, 1, 104857600, GiB}

ModeChoices == {"1", "2", "x"}

FilterChoices == {"", "1", "2", "3", "x"}

NoOpt == [pc |-> "idle", watch |-> FALSE, tty |-> FALSE, min_size |-> 0,
          skip_zero |-> FALSE, watch_mode |-> FALSE, menu |-> FALSE,
          filter |-> "", min_size_gb |-> Frac(0, 1), prompts |-> 0,
          passed |-> <<>>, flags |-> {}]

IdleOpt == opt = NoOpt

\* parser.parse_args(), ansible_check_node.py:849-891, and whether stdin is
\* a terminal
InitOpt ==
    \E w \in BOOLEAN, t \in BOOLEAN, n \in MinSizes, z \in BOOLEAN :
        opt = [NoOpt EXCEPT !.pc = "start", !.watch = w, !.tty = t,
                            !.min_size = n, !.skip_zero = z]

\* ansible_check_node.py:902 and 942-947
OptStart ==
    /\ opt.pc = "start"
    /\ opt' = IF ~opt.watch /\ opt.tty
              THEN [opt EXCEPT !.pc = "mode", !.menu = TRUE]
              ELSE [opt EXCEPT !.pc = "build", !.watch_mode = opt.watch,
                       !.min_size_gb = IF opt.min_size > 0
                                       THEN Frac(opt.min_size, GiB)
                                       ELSE Frac(0, 1)]
    /\ UNCHANGED nonOptVars

\* ansible_check_node.py:907-920: one answer to "Select (1/2)"
OptMode ==
    /\ opt.pc = "mode"
    /\ opt.prompts < MaxPrompts
    /\ \E ch \in ModeChoices :
          opt' = IF ch = "x" THEN [opt EXCEPT !.prompts = opt.prompts + 1]
                 ELSE [opt EXCEPT !.pc = "filter", !.watch_mode = (ch = "2"),
                                  !.prompts = 0]
    /\ UNCHANGED nonOptVars

\* ansible_check_node.py:928-940: one answer to "Select (1/2/3, default 1)"
OptFilter ==
    /\ opt.pc = "filter"
    /\ opt.prompts < MaxPrompts
    /\ \E ch \in FilterChoices :
          opt' = CASE ch \in {"", "1"} ->
                        [opt EXCEPT !.pc = "build", !.filter = "1",
                                    !.min_size_gb = Frac(0, 1)]
                   [] ch = "2" ->
                        [opt EXCEPT !.pc = "build", !.filter = "2",
                                    !.min_size_gb = Frac(1, 1)]
                   [] ch = "3" ->
                        [opt EXCEPT !.pc = "build", !.filter = "3",
                                    !.min_size_gb = Frac(1, 10)]
                   [] OTHER -> [opt EXCEPT !.prompts = opt.prompts + 1]
    /\ UNCHANGED nonOptVars

\* ansible_check_node.py:970-984: the script arguments
OptBuild ==
    /\ opt.pc = "build"
    /\ opt' = [opt EXCEPT !.pc = "done",
                  !.passed = IF opt.min_size_gb.num > 0
                             THEN <<min_size_bytes(opt.min_size_gb)>>
                             ELSE IF opt.min_size > 0 THEN <<opt.min_size>>
                             ELSE <<>>,
                  !.flags = (IF opt.skip_zero THEN {"--skip-zero"} ELSE {})
                            \cup (IF opt.watch_mode THEN {"--no-summary", "--quiet"}
                                  ELSE {})]
    /\ UNCHANGED nonOptVars

NextOpt == OptStart \/ OptMode \/ OptFilter \/ OptBuild

IdleExtra == IdleVol /\ IdlePar /\ IdleOpt

(***************************************************************************)
(* Specifications                                                          *)
(***************************************************************************)
StartDu == InitDu /\ IdleMeas /\ IdleSum /\ IdleOv /\ IdleBatch /\ IdleFront /\ IdleExtra
SpecDu == StartDu /\ [][NextDu]_vars

SpecGuard == StartDu /\ [][NextGuard]_vars

StartRace == InitRace /\ IdleMeas /\ IdleSum /\ IdleOv /\ IdleBatch /\ IdleFront /\ IdleExtra
SpecRace == StartRace /\ [][NextRace]_vars

StartMeasure == IdleDu /\ InitMeas /\ IdleSum /\ IdleOv /\ IdleBatch /\ IdleFront /\ IdleExtra
SpecMeasure == StartMeasure /\ [][NextMeas]_vars

StartSummary == IdleDu /\ IdleMeas /\ InitSum /\ IdleOv /\ IdleBatch /\ IdleFront /\ IdleExtra
SpecSummary == StartSummary /\ [][NextSum]_vars

StartOverlay == IdleDu /\ IdleMeas /\ IdleSum /\ InitOv /\ IdleBatch /\ IdleFront /\ IdleExtra
SpecOverlay == StartOverlay /\ [][NextOv]_vars

StartDiscover == IdleDu /\ IdleMeas /\ IdleSum /\ InitDiscover /\ IdleBatch /\ IdleFront /\ IdleExtra
SpecDiscover == StartDiscover /\ [][NextOv]_vars

StartScan == IdleDu /\ IdleMeas /\ IdleSum /\ InitScan /\ IdleBatch /\ IdleFront /\ IdleExtra
SpecScan == StartScan /\ [][NextOv]_vars

StartVolumes ==
    IdleDu /\ IdleMeas /\ IdleSum /\ IdleOv /\ IdleBatch /\ IdleFront
    /\ InitVol /\ IdlePar /\ IdleOpt
SpecVolumes == StartVolumes /\ [][NextVol]_vars

StartParallel ==
    IdleDu /\ IdleMeas /\ IdleSum /\ IdleOv /\ IdleBatch /\ IdleFront
    /\ IdleVol /\ InitPar /\ IdleOpt
SpecParallel == StartParallel /\ [][NextPar]_vars

StartOptions ==
    IdleDu /\ IdleMeas /\ IdleSum /\ IdleOv /\ IdleBatch /\ IdleFront
    /\ IdleVol /\ IdlePar /\ InitOpt
SpecOptions == StartOptions /\ [][NextOpt]_vars

StartPool == IdleDu /\ IdleMeas /\ IdleSum /\ IdleOv /\ InitPool /\ IdleFront /\ IdleExtra
SpecPool == StartPool /\ [][NextBatch]_vars

StartReport == IdleDu /\ IdleMeas /\ IdleSum /\ IdleOv /\ InitReport /\ IdleFront /\ IdleExtra
SpecReport == StartReport /\ [][NextBatch]_vars

StartSlow == IdleDu /\ IdleMeas /\ IdleSum /\ IdleOv /\ InitSlow /\ IdleFront /\ IdleExtra
SpecSlow == StartSlow /\ [][NextBatch]_vars

StartApi ==
    InitDu /\ IdleMeas /\ IdleSum /\ IdleOv /\ IdleBatch /\ InitApi /\ IdleCli /\ IdleSel /\ IdleExtra
SpecApi == StartApi /\ [][NextApi]_vars

StartCli ==
    IdleDu /\ IdleMeas /\ IdleSum /\ IdleOv /\ IdleBatch /\ IdleApi /\ InitCli /\ IdleSel /\ IdleExtra
SpecCli == StartCli /\ [][NextCli]_vars

(***************************************************************************)
(* Claims                                                                  *)
(***************************************************************************)
Done(c) == req[c].pc = "done"

\* The call found a store for its key that was no older than the TTL when
\* the lookup read the clock.
FreshAtLookup(c) ==
    /\ req[c].looked
    /\ req[c].preStore # NoStore
    /\ req[c].getTime - req[c].preStore.ts <= ttl_sec

StaleAtLookup(c) ==
    /\ req[c].looked
    /\ req[c].preStore # NoStore
    /\ req[c].getTime - req[c].preStore.ts > ttl_sec

ServedFromCache(c) ==
    /\ ~req[c].scanned
    /\ req[c].result = "ok"
    /\ Count(nscan, req[c].key) = req[c].preStore.n
    /\ req[c].resp = Response(req[c].path, req[c].preStore.data)

Restored(c) ==
    /\ req[c].key \in DOMAIN cache
    /\ cache[req[c].key].ts >= req[c].getTime
    /\ cache[req[c].key].data = req[c].data

\* C1 (as stated): a call whose key was stored within the TTL is served from
\* the cache without a scan; a call made after the TTL has expired scans
\* again and re-stores the entry.
C1_Original ==
    \A c \in Callers : Done(c) =>
        /\ FreshAtLookup(c) => ServedFromCache(c)
        /\ StaleAtLookup(c) => req[c].scanned /\ Restored(c)

\* C1 (amended): a call whose key was stored within the TTL is served from
\* the cache without a scan; a call made after the TTL has expired scans
\* again, and re-stores the entry when that scan succeeds (a failed scan
\* stores nothing).
C1_CacheTtl ==
    \A c \in Callers : Done(c) =>
        /\ FreshAtLookup(c) => ServedFromCache(c)
        /\ StaleAtLookup(c) =>
              /\ req[c].scanned
              /\ req[c].result = "ok" => Restored(c)
              /\ req[c].result # "ok" => req[c].key \notin DOMAIN cache

C1_Witness ==
    \E c \in Callers :
        /\ Done(c) /\ FreshAtLookup(c) /\ ~req[c].scanned
        /\ req[c].getTime > req[c].preStore.ts
        /\ clock > req[c].preStore.ts + ttl_sec

\* The components of a normalized path, and containment stated on them
Within(root, path) ==
    LET r == normpath(root)
        t == normpath(path)
    IN \/ t = r
       \/ \E k \in 1..(Len(t) - 1) :
             /\ SubSeq(t, 1, k) = r
             /\ r[Len(r)] = SEP \/ t[k + 1] = SEP

WithinAny(roots, path) == \E i \in 1..Len(roots) : Within(roots[i], path)

\* C2 (as stated): for every path and every non-empty root list the call
\* raises Forbidden exactly when the path is in no root.
C2_Original ==
    \A c \in Callers : Done(c) /\ Len(req[c].roots) > 0 =>
        (req[c].result = "Forbidden" <=> ~WithinAny(req[c].roots, req[c].path))

PassesInvalidPath(p) == p # <<>> /\ p[1] = SEP /\ ~Contains(p, NUL)

\* C2 (amended): for every path that passes the InvalidPath check and every
\* non-empty root list the call raises Forbidden exactly when the normalized
\* path is neither a normalized root nor below one at a separator boundary;
\* with an empty root list no path is rejected as Forbidden.
C2_Forbidden ==
    \A c \in Callers : Done(c) =>
        /\ PassesInvalidPath(req[c].path) /\ Len(req[c].roots) > 0 =>
             (req[c].result = "Forbidden" <=> ~WithinAny(req[c].roots, req[c].path))
        /\ Len(req[c].roots) = 0 => req[c].result # "Forbidden"

C2_Witness ==
    \E c \in Callers :
        /\ Done(c) /\ req[c].result = "Forbidden"
        /\ req[c].roots = <<Str("/d")>>
        /\ normpath(req[c].path) = Str("/db")
        /\ req[c].path # Str("/db")

\* C3: a path that is empty, not absolute or holds a null byte is rejected
\* with InvalidPath, before the roots check, any cache lookup and any scan.
C3_InvalidPath ==
    \A c \in Callers :
        req[c].pc \notin {"idle", "validate"} /\ ~PassesInvalidPath(req[c].path) =>
            /\ Done(c)
            /\ req[c].result = "InvalidPath"
            /\ ~req[c].looked /\ ~req[c].scanned
            /\ cache = <<>> /\ nscan = <<>>

C3_Witness ==
    \E c \in Callers :
        /\ Done(c) /\ req[c].result = "InvalidPath"
        /\ isabs(req[c].path) /\ Contains(req[c].path, NUL)
        /\ Len(req[c].roots) > 0
        /\ ~WithinAny(req[c].roots, req[c].path)


OkImpliesBytes(st, b) == (st = "ok" => b >= 0) /\ (st # "ok" => b = -1)

\* C4: every sizing result has status ok only with bytes >= 0 and any other
\* status only with bytes = -1, for get_upperdir_size and for the
\* path-summary sizing alike.
C4_Sentinel ==
    /\ meas.pc = "done" => OkImpliesBytes(meas.res.status, meas.res.bytes)
    /\ \A i \in 1..Len(sres) : OkImpliesBytes(sres[i].status, sres[i].total_bytes)

HostRootSentinel == HostPrefix

\* C5: measuring "/" or the host-root sentinel yields Skip and never runs
\* the sizing tool.
C5_RootSkip ==
    meas.pc = "done" /\ meas.path \in {<<SEP>>, HostRootSentinel} =>
        meas.res.status = "skip" /\ ~meas.res.ran


RunningQuerySucceeded == ov.crictl.kind = "exit" /\ ov.crictl.rc = 0

\* C6: whenever the running-ID query succeeded, whatever set it returned, no
\* overlay record is returned for a container ID outside that set.
C6_OnlyRunning ==
    ov.pc = "done" /\ RunningQuerySucceeded =>
        \A k \in 1..Len(ov.results) :
            ContainerIdOf(ov.results[k].mountpoint) \in ov.crictl.ids

(***************************************************************************)
(* Claims about the node scripts                                           *)
(***************************************************************************)
PoolOver == bpc \in {"sort", "print", "exit"} /\ items # <<>>

NoFilter == ~bargs.skip_zero /\ bargs.min_size = 0

\* The record's path exists neither as given nor under the host prefix
PathMissing(item) ==
    item.path \notin item.exists /\ (HostPrefix \o item.path) \notin item.exists

Occurrences(s, x) == Cardinality({k \in 1..Len(s) : s[k] = x})

\* The result a record gets when it is sized on its own
SizedAlone(item) == work(item, bargs.timeout_sec)

IsNotFound(r) ==
    r.actual_status = "error" /\ r.actual_human = Human("Not found", 0)
    /\ r.actual_bytes = -1

\* C7: with no filter, N records give N results, one per record; when
\* exactly one record's path is missing exactly one result is the not-found
\* error with bytes -1, and every other record has the result it gets when
\* sized without the failing record.
C7_OnePerRecord ==
    PoolOver /\ NoFilter =>
        /\ Len(results) = Len(items)
        /\ \A i \in 1..Len(items) :
              Occurrences(results, SizedAlone(items[i])) =
                  Cardinality({j \in 1..Len(items) :
                                  SizedAlone(items[j]) = SizedAlone(items[i])})
        /\ Cardinality({i \in 1..Len(items) : PathMissing(items[i])}) = 1 =>
              /\ Cardinality({k \in 1..Len(results) : IsNotFound(results[k])}) = 1
              /\ \A i \in 1..Len(items) : ~PathMissing(items[i]) =>
                    /\ ~IsNotFound(SizedAlone(items[i]))
                    /\ \E k \in 1..Len(results) : results[k] = SizedAlone(items[i])

C7_Witness ==
    /\ PoolOver /\ NoFilter
    /\ bargs.workers = 2
    /\ Len(items) >= 3
    /\ Cardinality({i \in 1..Len(items) : PathMissing(items[i])}) = 1
    /\ PathMissing(items[1])
    /\ \E k \in 1..Len(results) : results[k].actual_status = "ok"
    /\ \E k \in 1..Len(results) :
          results[k].actual_status = "error" /\ ~IsNotFound(results[k])
    /\ IsNotFound(presort[Len(presort)])

Sorted == bpc = "print" \/ (bpc = "exit" /\ presort # <<>>)

\* results is presort rearranged, records with equal keys in presort's order
StableRearrangement(keys) ==
    \E pi \in [1..Len(results) -> 1..Len(presort)] :
        /\ \A k, l \in 1..Len(results) : k # l => pi[k] # pi[l]
        /\ \A k \in 1..Len(results) : results[k] = presort[pi[k]]
        /\ \A k, l \in 1..Len(results) :
              k < l /\ keys[pi[k]] = keys[pi[l]] => pi[k] < pi[l]

\* C8: sorted by size the records are in non-increasing order of bytes,
\* error records after ok records, equal bytes in their order from before
\* the sort; sorted by type they are grouped by kind in ascending kind order
\* and non-increasing in bytes within a kind, error records last.
C8_SortOrder ==
    Sorted =>
        /\ Len(results) = Len(presort)
        /\ bargs.sort = "size" =>
              /\ \A k, l \in 1..Len(results) :
                    k < l => results[k].actual_bytes >= results[l].actual_bytes
              /\ \A k, l \in 1..Len(results) :
                    results[k].actual_status = "ok" /\ results[l].actual_status # "ok"
                        => k < l
              /\ StableRearrangement([i \in 1..Len(presort) |-> presort[i].actual_bytes])
        /\ bargs.sort = "type" =>
              /\ \A k, l \in 1..Len(results) :
                    k < l => TypeRank(results[k].type) <= TypeRank(results[l].type)
              /\ \A k, l \in 1..Len(results) :
                    k < l /\ results[k].type = results[l].type =>
                        /\ results[k].actual_bytes >= results[l].actual_bytes
                        /\ results[k].actual_status # "ok" => results[l].actual_status # "ok"

C8_Witness ==
    /\ bpc = "print" /\ bargs.sort = "size"
    /\ results # presort
    /\ \E k, l \in 1..Len(results) :
          /\ k < l /\ results[k].actual_bytes = results[l].actual_bytes
          /\ results[k] # results[l]
    /\ \E k \in 1..Len(results) : results[k].actual_status = "error"
    /\ presort[1].actual_status = "error"

\* The filter as the claim states it
DropCondition(r) ==
    /\ r.actual_status = "ok"
    /\ \/ bargs.skip_zero /\ r.actual_bytes = 0
       \/ bargs.min_size > 0 /\ r.actual_bytes < bargs.min_size

\* C9: whatever the skip-zero flag and the min-size threshold, every record
\* measured with error status is in the final results; a record is dropped
\* only when it is ok and (skip-zero and bytes = 0, or min-size > 0 and
\* bytes < min-size), and every other ok record is kept.
C9_FilterKeepsErrors ==
    PoolOver =>
        \A i \in 1..Len(items) :
            LET r == SizedAlone(items[i])
            IN Occurrences(results, r) =
                  IF DropCondition(r) THEN 0
                  ELSE Cardinality({j \in 1..Len(items) : SizedAlone(items[j]) = r})

C9_Witness ==
    /\ bpc = "exit" /\ bargs.skip_zero /\ bargs.min_size = 2
    /\ Len(items) = 3
    /\ Len(results) = 1
    /\ results[1].actual_status = "error"
    /\ \E i \in 1..Len(items) : SizedAlone(items[i]).actual_bytes = 0
    /\ \E i \in 1..Len(items) : SizedAlone(items[i]).actual_bytes = 1

RECURSIVE SumOk(_, _)
SumOk(rows, S) ==
    IF S = {} THEN 0
    ELSE LET k == CHOOSE x \in S : TRUE
         IN (IF rows[k].actual_status = "ok" THEN rows[k].actual_bytes ELSE 0)
            + SumOk(rows, S \ {k})

\* C10: the summary's total is the sum of bytes over exactly the ok records,
\* its error count the number of records that are not ok, and its per-kind
\* counts add up to the number of records summarized.
C10_Summary ==
    summary.printed =>
        /\ summary.total_bytes = SumOk(results, 1..Len(results))
        /\ summary.error_count =
              Cardinality({k \in 1..Len(results) : results[k].actual_status # "ok"})
        /\ summary.overlay_count + summary.volume_count = Len(results)

C10_Witness ==
    /\ summary.printed
    /\ summary.error_count = 1
    /\ summary.total_bytes = 3
    /\ summary.overlay_count = 1
    /\ summary.volume_count = 2

(***************************************************************************)
(* Claims about discovery and measurement                                  *)
(***************************************************************************)
\* The runtime CLI exited non-zero, raised (timeout, not installed) or
\* printed malformed output
QueryFailed(r) == r.kind \in {"raise", "garbled"} \/ r.rc # 0

WellFormed(line) ==
    line.overlay /\ line.nfields >= 5 /\ HasMarker(line.mountpoint)
    /\ Len(line.upper) > 0

\* C11: each of the three runtime queries returns an empty set or map when
\* the runtime CLI exits non-zero, times out, is not installed or prints
\* malformed output; discovery then still completes and emits its overlay
\* and volume records, with name, pod and namespace empty.
C11_Degrade ==
    /\ ov.pc \notin {"idle", "query"} =>
          /\ QueryFailed(ov.crictl) => ov.running_ids = {}
          /\ QueryFailed(ov.infoq) => ov.listed = {}
    /\ ov.pc = "done" /\ ov.world.base /\ QueryFailed(ov.world.pods) =>
          ov.pod_info = {}
    /\ ov.pc = "done" /\ QueryFailed(ov.crictl) /\ QueryFailed(ov.infoq)
          /\ QueryFailed(ov.world.pods) =>
          /\ ov.file # "none" =>
                /\ Len(ov.results) =
                      Cardinality({i \in 1..Len(ov.lines) : WellFormed(ov.lines[i])})
                /\ \A k \in 1..Len(ov.results) :
                      /\ ov.results[k].container_name = ""
                      /\ ov.results[k].pod = ""
                      /\ ov.results[k].namespace = ""
          /\ \A k \in 1..Len(ov.volumes) :
                ov.volumes[k].pod = "" /\ ov.volumes[k].namespace = ""
          /\ ov.all = ov.results \o ov.volumes

\* C12: get_upperdir_size measures p itself when p exists, the host-prefixed
\* form when p does not exist as given but "/host" + p does, and returns the
\* not-found error with bytes -1, the sizing tool not run, when neither exists.
C12_Resolve ==
    meas.pc = "done" =>
        LET p == meas.path
            hp == HostPrefix \o meas.path
        IN /\ p \in meas.exists => meas.res.ran /\ meas.res.target = p
           /\ p \notin meas.exists /\ hp \in meas.exists =>
                 meas.res.ran /\ meas.res.target = hp
           /\ p \notin meas.exists /\ hp \notin meas.exists =>
                 /\ ~meas.res.ran
                 /\ meas.res.status = "error"
                 /\ meas.res.human = Human("Not found", 0)
                 /\ meas.res.bytes = -1

\* The sizing tool ran and exited
ToolExited == meas.pc = "done" /\ meas.res.ran /\ meas.du.kind = "exit"

AcceptedExit == meas.du.rc \in {0, 1} /\ Len(meas.du.out) > 0

IsDuError(res, errlen) ==
    /\ res.status = "error" /\ res.bytes = -1
    /\ res.human.msg = "du error"
    /\ res.human.n <= 80 /\ res.human.n <= errlen
    /\ (errlen <= 80 => res.human.n = errlen)

C13_Original ==
    ToolExited =>
        /\ meas.res.status = "ok" <=> AcceptedExit
        /\ AcceptedExit => meas.du.out[1].num /\ meas.res.bytes = meas.du.out[1].val
        /\ ~AcceptedExit => IsDuError(meas.res, meas.du.errlen)

\* C13: when the tool exits, get_upperdir_size returns ok, with bytes the
\* leading integer token of the output, exactly when the exit code is 0 or 1
\* and the output is non-empty and begins with an integer token; for any
\* other exit code or empty output it returns error, bytes -1 and at most 80
\* characters of the error stream; for accepted output that does not begin
\* with an integer it returns error, bytes -1 and the exception's text.
C13_ExitCodes ==
    ToolExited =>
        /\ meas.res.status = "ok" <=> (AcceptedExit /\ meas.du.out[1].num)
        /\ AcceptedExit /\ meas.du.out[1].num => meas.res.bytes = meas.du.out[1].val
        /\ ~AcceptedExit => IsDuError(meas.res, meas.du.errlen)
        /\ AcceptedExit /\ ~meas.du.out[1].num =>
              /\ meas.res.status = "error" /\ meas.res.bytes = -1
              /\ meas.res.human.msg = "Error"

C13_Witness ==
    /\ ToolExited
    /\ meas.du.rc = 1 /\ Len(meas.du.out) > 1
    /\ meas.res.status = "ok" /\ meas.res.bytes = 2
    /\ meas.du.errlen > 0

\* The tool ran on the record's path and did not finish within timeout_sec
TimedOut(item) == ~PathMissing(item) /\ item.du.kind = "timeout"

IsTimeout(r) ==
    /\ r.actual_status = "error" /\ r.actual_bytes = -1
    /\ r.actual_human = Human("Timeout", bargs.timeout_sec)

\* C14: a measurement whose tool does not finish within timeout_sec returns
\* an error result with bytes -1 whose message names timeout_sec, and the
\* other records of the batch are still measured and reported.
C14_Timeout ==
    PoolOver /\ NoFilter =>
        /\ Len(results) = Len(items)
        /\ Cardinality({k \in 1..Len(results) : IsTimeout(results[k])}) =
              Cardinality({i \in 1..Len(items) : TimedOut(items[i])})
        /\ \A k \in 1..Len(results) :
              results[k].actual_human.msg = "Timeout" => IsTimeout(results[k])
        /\ \A i \in 1..Len(items) : ~TimedOut(items[i]) =>
              Occurrences(results, SizedAlone(items[i])) =
                  Cardinality({j \in 1..Len(items) :
                                  SizedAlone(items[j]) = SizedAlone(items[i])})

C14_Witness ==
    /\ PoolOver /\ NoFilter
    /\ bargs.timeout_sec = 10 /\ bargs.workers = 2
    /\ Len(items) = 3
    /\ TimedOut(items[1]) /\ ~TimedOut(items[2]) /\ ~TimedOut(items[3])
    /\ IsTimeout(presort[3])
    /\ presort[1].actual_status = "ok"

\* The request's path is not a safe absolute path, or lies outside every
\* allowed root
MustReject ==
    \/ ~PassesInvalidPath(api.path)
    \/ Len(api.roots) > 0 /\ ~WithinAny(api.roots, api.path)

\* C15: at every depth api_du answers a path that is not a safe absolute
\* path, or that lies outside every allowed root, with 400 or 403, never
\* with a size result or a server error, and does not size the path.
C15_ClientError ==
    api.pc = "done" /\ MustReject =>
        /\ api.status \in {400, 403}
        /\ api.answer # "size"
        /\ ~api.sized
        /\ nscan = <<>>

\* The steps a record's measurement goes through, in this order only
FutureSteps ==
    {<<"queued", "running">>, <<"running", "finished">>, <<"finished", "collected">>}

\* C16: with W >= 1 workers each record's measurement is started exactly
\* once, at most W measurements are in flight in any state, and a
\* measurement starts only when a worker is free.
C16_WorkerBound ==
    /\ [](Cardinality(Running) <= bargs.workers)
    /\ [](PoolOver => \A i \in 1..Len(items) : fstate[i] = "collected")
    /\ [][\A i \in 1..Len(items) :
             fstate'[i] # fstate[i] =>
                /\ <<fstate[i], fstate'[i]>> \in FutureSteps
                /\ fstate'[i] = "running" => Cardinality(Running) < bargs.workers]_vars

C16_Witness ==
    /\ bpc = "pool" /\ bargs.workers = 2 /\ Len(items) = 3
    /\ Cardinality(Running) = 2
    /\ fstate[3] = "queued"

\* The results of the collected records that pass the filter, in the order
\* in which their measurements completed
InCompletionOrder ==
    LET Kept(i) == fstate[i] = "collected" /\ ~DropCondition(fres[i])
        order == SelectSeq(completed, Kept)
    IN [k \in 1..Len(order) |-> fres[order[k]]]

C18_TotalRow ==
    \A c \in Callers : Done(c) /\ req[c].result = "ok" =>
        LET data == req[c].data
            norm == normpath(req[c].path)
            own == {i \in 1..Len(data) : normpath(data[i].path) = norm}
            entries == req[c].resp.entries
        IN /\ own # {}
           /\ ~req[c].resp.total_none
           /\ \E i \in own : req[c].resp.total_bytes = data[i].bytes
           /\ Len(entries) = Len(data) - Cardinality(own)
           /\ \A i \in 1..Len(data) : i \notin own =>
                 Occurrences(entries, data[i]) = Occurrences(data, data[i])
           /\ \A k, l \in 1..Len(entries) : k < l => entries[k].bytes >= entries[l].bytes

C19_Original ==
    cli.pc = "exit" =>
        /\ cli.cause \in {"completed", "empty"} => cli.code = 0
        /\ cli.cause \in {"interrupt", "error"} => cli.code = 1

\* C19: the tools exit with 0 on normal completion and on an empty result
\* set, with 1 when an unhandled error reaches the entry point and when a
\* user interrupt does; an interrupt during the refresh loop of watch mode
\* is handled there and the exit code is 0.
C19_ExitCodes ==
    cli.pc = "exit" =>
        /\ cli.cause \in {"completed", "empty"} => cli.code = 0
        /\ cli.cause = "error" => cli.code = 1
        /\ cli.cause = "interrupt" =>
              cli.code = IF cli.tool = "ansible" /\ cli.at = "watching" THEN 0 ELSE 1

C19_Witness ==
    /\ cli.pc = "exit" /\ cli.tool = "ansible" /\ cli.watch
    /\ cli.cause = "interrupt" /\ cli.at = "watching"
    /\ cli.iteration = 2
    /\ cli.code = 0

Members(hosts) == {hosts[i] : i \in 1..Len(hosts)}

Multi(ch) == ~ch.all /\ Len(ch.nums) > 1

SelectionRules ==
    /\ sel.pc = "returned" =>
          /\ sel.selected # <<>>
          /\ \A k \in 1..Len(sel.selected) : sel.selected[k] \in Members(sel.hosts)
          /\ sel.watch => Len(sel.selected) = 1 /\ ~sel.last.all /\ ~Multi(sel.last)
    /\ sel.prompts > 0 /\ sel.watch /\ (sel.last.all \/ Multi(sel.last)) =>
          sel.pc = "prompt"
    /\ sel.prompts > 0 /\ ~sel.watch /\ sel.last.all =>
          sel.pc = "returned" /\ sel.selected = sel.hosts
    /\ sel.prompts > 0 /\ ~sel.watch /\ ~sel.last.all
          /\ (\E k \in 1..Len(sel.last.nums) :
                 sel.last.nums[k].digit /\ sel.last.nums[k].n \in 1..Len(sel.hosts)) =>
          sel.pc = "returned"

C20_Original == sel.pc # "idle" => SelectionRules

\* C20: with at least one host in the inventory, select_target in watch mode
\* returns only when exactly one host is selected ("all" and any
\* multi-selection make the prompt repeat); outside watch mode single,
\* multiple and "all" selections are accepted; every returned host is in the
\* inventory list and the selection is not empty. With no host in the
\* inventory it returns at once, with no target and an empty selection.
C20_Selection ==
    /\ sel.pc # "idle" /\ sel.hosts # <<>> => SelectionRules
    /\ sel.pc # "idle" /\ sel.hosts = <<>> =>
          sel.pc = "returned" /\ sel.selected = <<>> /\ sel.target = "none"
          /\ sel.prompts = 0

C20_Witness ==
    /\ sel.pc = "returned" /\ sel.watch
    /\ sel.prompts = 2
    /\ Len(sel.hosts) = 2
    /\ sel.selected = <<Host(2)>>

\* The request's sizing tool ran past its timeout: the du of the depth-0
\* branch, or the du that list_children_sizes runs
ApiTimedOut ==
    \/ /\ api.depth = 0 /\ api.mount = "none" /\ ~MustReject
       /\ ~Contains(api.path, NUL)
       /\ api.du.kind = "timeout"
    \/ \E c \in Callers : req[c].pc = "done" /\ req[c].result = "TimeoutExpired"

\* C21: at every depth api_du answers a sizing-tool invocation that exceeded
\* its timeout with status 504, not with a generic server error and not with
\* a size.
C21_TimeoutResponse ==
    api.pc = "done" /\ ApiTimedOut => api.status = 504 /\ api.answer # "size"

\* The line is a well-formed container overlay entry whose container ID is in
\* the running set, or the running set is empty
EmitsRecord(line) ==
    /\ WellFormed(line)
    /\ ov.running_ids = {} \/ ContainerIdOf(line.mountpoint) \in ov.running_ids

\* The upperdir and mountpoint of the lines of the table's first n lines that
\* are such entries, in line order
ExpectedRecords(n) ==
    LET good == SelectSeq(SubSeq(ov.lines, 1, n), EmitsRecord)
    IN [k \in 1..Len(good) |-> <<good[k].upper[1], good[k].mountpoint>>]

\* C22: the overlay scan emits a record for each line that is a well-formed
\* container overlay entry (overlay marker, at least 5 fields, marker in the
\* mountpoint, an upperdir, ID running or running set empty), in line order,
\* whatever malformed lines precede or follow it; malformed lines produce no
\* record and do not end the scan.
C22_MalformedLines ==
    LET emitted == [k \in 1..Len(ov.results) |->
                       <<ov.results[k].path, ov.results[k].mountpoint>>]
    IN /\ ov.pc = "scan" => emitted = ExpectedRecords(ov.i - 1)
       /\ ov.pc \in {"vols", "volscan", "done"} /\ ov.file # "none" =>
             emitted = ExpectedRecords(Len(ov.lines))

C22_Witness ==
    /\ ov.pc = "done" /\ Len(ov.lines) = 3
    /\ ~WellFormed(ov.lines[1]) /\ ov.lines[1].nfields < 5
    /\ EmitsRecord(ov.lines[2])
    /\ ~WellFormed(ov.lines[3]) /\ Len(ov.lines[3].upper) = 0
    /\ Len(ov.results) = 1
    /\ ov.results[1].path = ov.lines[2].upper[1]

\* The pod directory holds a volume directory that can be listed
HasVolume(d) == d.pod_uid # "unreadable" /\ d.emptydir /\ d.isdir

\* C23: a listing error on one pod's volume directory is swallowed for that
\* directory only: the volumes of every other pod directory, those listed
\* after the failing one included, are still emitted.
C23_PerDirectory ==
    pv.pc = "done" /\ pv.base # "none" =>
        LET good == SelectSeq(pv.dirs, HasVolume)
        IN /\ Len(pv.results) = Len(good)
           /\ \A k \in 1..Len(good) :
                 pv.results[k].path = <<pv.base, good[k].pod_uid, good[k].vol>>

\* C24: every implementation of the enumeration uses the host-mounted pods
\* root when it exists, otherwise the local pods root when that exists, and
\* returns an empty list at once only when neither exists.
C24_RootChoice ==
    pv.pc = "done" =>
        /\ pv.host => pv.base = "host"
        /\ ~pv.host /\ pv.local => pv.base = "local"
        /\ ~pv.host /\ ~pv.local => pv.base = "none" /\ pv.results = <<>>
        /\ \A k \in 1..Len(pv.results) : pv.results[k].path[1] = pv.base

\* Both calls have returned, and both had missed the cache for the same key
BothMissed(a, b) ==
    /\ a # b /\ Done(a) /\ Done(b)
    /\ req[a].scanned /\ req[b].scanned
    /\ req[a].key = req[b].key

\* The row lists a scan of the path can return
CompleteScans(path) == {ParallelRows(path, s) : s \in Snapshots}

\* C25: when two callers both miss the cache for the same key, both scan,
\* each response is built from the caller's own rows, and afterwards the
\* cache holds for the key the complete row list of the caller that stored
\* last; a later call within the TTL returns that writer's rows.
C25_LastWriterWins ==
    /\ \A a \in Callers, b \in Callers : BothMissed(a, b) =>
          LET k == req[a].key
              w == lastStore[k].by
          IN /\ Count(nscan, k) >= 2
             /\ req[a].result = "ok"
             /\ req[a].data \in CompleteScans(req[a].path)
             /\ req[a].resp = Response(req[a].path, req[a].data)
             /\ k \in DOMAIN cache
             /\ cache[k].data = req[w].data
             /\ cache[k].ts = lastStore[k].ts
    /\ \A c \in Callers : Done(c) /\ ~req[c].overlap /\ FreshAtLookup(c) =>
          /\ ~req[c].scanned
          /\ req[c].resp = Response(req[c].path, req[c].preStore.data)

C25_Witness ==
    /\ ncalls = 2
    /\ BothMissed(1, 2)
    /\ req[1].overlap /\ req[2].overlap
    /\ req[1].data # req[2].data
    /\ req[2].order = 2
    /\ lastStore[req[1].key].by = 1
    /\ cache[req[1].key].data = req[1].data

\* C26: on every cache miss, at every depth (depth 1 included), the rows
\* come from an invocation of the external sizing tool that is given the
\* requested depth, the call's one-filesystem flag and the call's timeout.
C26_ToolOnMiss ==
    \A c \in Callers : req[c].scanned =>
        req[c].via = Via("du", req[c].depth, req[c].one_fs, TRUE)

\* C27: under any interleaving of get and set calls of concurrent callers on
\* one key, get never removes an entry that is younger than the TTL: every
\* entry that a step removes from the cache is older than the TTL at that
\* step.
C27_NoFreshRemoval ==
    [][\A k \in DOMAIN cache :
          k \notin DOMAIN cache' => Expired(clock, cache[k].ts, ttl_sec)]_vars

Failed(c) ==
    Done(c) /\ req[c].result \in {"InvalidPath", "Forbidden", "RuntimeError", "TimeoutExpired"}

\* The entries of every key but the call's own are those the call found
OthersKept(c) ==
    \A k \in (DOMAIN cache \cup DOMAIN req[c].before) \ {req[c].key} :
        Lookup(cache, k) = Lookup(req[c].before, k)

\* The call's lookup removed the entry of its key, which had expired
ExpiredRemoved(c) ==
    /\ req[c].key \in DOMAIN req[c].before
    /\ req[c].key \notin DOMAIN cache
    /\ Expired(req[c].getTime, req[c].before[req[c].key].ts, ttl_sec)

\* C28 (as stated): a call that ends in an error leaves the cache exactly as
\* it was before the call, no entry is stored for the key; a successful call
\* changes at most the entry of its own key.
C28_Original ==
    \A c \in Callers :
        /\ Failed(c) => cache = req[c].before
        /\ Failed(c) /\ req[c].scanned => req[c].key \notin DOMAIN cache
        /\ Done(c) /\ req[c].result = "ok" => OthersKept(c)

\* C28 (amended): a call that ends in an error stores nothing: it leaves the
\* cache as it was before the call, except that the lookup has removed the
\* entry of the call's key when that entry had expired; after a failed scan
\* the key has no entry, so the next call with that key scans again; a
\* successful call changes at most the entry of its own key.
C28_ErrorFrame ==
    \A c \in Callers :
        /\ Failed(c) => cache = req[c].before \/ (OthersKept(c) /\ ExpiredRemoved(c))
        /\ Failed(c) /\ ~req[c].looked => cache = req[c].before
        /\ Failed(c) /\ req[c].scanned => req[c].key \notin DOMAIN cache
        /\ Done(c) /\ req[c].result = "ok" => OthersKept(c)

C28_Witness ==
    \E c \in Callers :
        /\ Failed(c) /\ req[c].result = "TimeoutExpired"
        /\ ExpiredRemoved(c)
        /\ cache # req[c].before

RECURSIVE SumBytes(_, _)
SumBytes(rows, n) == IF n = 0 THEN 0 ELSE rows[n].bytes + SumBytes(rows, n - 1)

\* C29: whatever the completion order and whichever subdirectory scans
\* fail, the list run_du_parallel returns at depth 1 holds exactly one row
\* for the parent path, placed last, whose bytes are the size of the direct
\* regular files plus the sum of the bytes of the child rows emitted; a
\* child row is emitted once for each subdirectory whose scan returned.
C29_ParentRow ==
    par.pc = "done" =>
        LET rows == par.entries
            n == Len(rows)
        IN /\ n >= 1
           /\ {k \in 1..n : rows[k].parent} = {n}
           /\ rows[n].bytes = par.files_size + SumBytes(rows, n - 1)
           /\ \A i \in 1..Len(par.subdirs) :
                 Cardinality({k \in 1..(n - 1) : rows[k].sub = i}) =
                    IF par.subdirs[i].raises THEN 0 ELSE 1
           /\ \A k \in 1..(n - 1) : rows[k].bytes = par.subdirs[rows[k].sub].size

C29_Witness ==
    /\ par.pc = "done" /\ Len(par.subdirs) = 3
    /\ par.subdirs[1].raises
    /\ par.files_size = 2
    /\ Len(par.entries) = 3
    /\ par.entries[1].sub = 3 /\ par.entries[2].sub = 2
    /\ par.entries[3].bytes = 5

\* C30: the --min-size handed to the node script is the byte value of the
\* selected threshold: "Show 1 GiB+" passes 1073741824, "Show 100 MiB+"
\* passes 104857600, "Show All" passes no threshold unless --min-size was
\* given, and a --min-size N of the command line is passed as exactly N.
C30_MinSizeBytes ==
    opt.pc = "done" =>
        /\ opt.menu /\ opt.filter = "2" => opt.passed = <<1073741824>>
        /\ opt.menu /\ opt.filter = "3" => opt.passed = <<100 * 1024 * 1024>>
        /\ opt.menu /\ opt.filter = "1" /\ opt.min_size = 0 => opt.passed = <<>>
        /\ (~opt.menu \/ opt.filter = "1") /\ opt.min_size > 0 =>
              opt.passed = <<opt.min_size>>
        /\ ~opt.menu /\ opt.min_size = 0 => opt.passed = <<>>

====
